---- MODULE Spec2Model ----
(***************************************************************************)
(* Model of the HPC job scheduler (src/task2/sheduler.py).                 *)
(*                                                                         *)
(* The three text files of the program are the persistent state:           *)
(*   job_queue.txt       -> queue_file      (the pending store)            *)
(*   completed_jobs.txt  -> completed_file  (the completed ledger)         *)
(*   scheduler_log.txt   -> log_file        (the scheduler log / trace)    *)
(* A file is a sequence of lines.  A line of the queue file is the         *)
(* sequence of its "|"-separated parts, a part where a number is expected  *)
(* being a whole number or a text that is none; lines of the other two     *)
(* files are                                                               *)
(* records of the fields the code formats into them.  The timestamp the    *)
(* code prefixes to ledger and log lines is left out: no decision of the   *)
(* program reads it.                                                       *)
(*                                                                         *)
(* The scheduling functions are modelled step by step: one action per      *)
(* loop test and one per loop iteration, with pc the position in the code. *)
(* round_robin_scheduling and priority_scheduling can be entered through   *)
(* process_job_queue or called as they are.  process_job_queue loads the   *)
(* queue, waits at its prompt (pc = "choice") and the function it then     *)
(* calls loads the queue again.  After a function returns its              *)
(* locals keep the values they had at the return, until the next run sets  *)
(* them again; the program no longer reads them, the properties do.        *)
(* No write to a file fails in Spec, SpecRun and SpecRunFair; SpecFail adds *)
(* the steps in which a write fails.  The program started twice on the     *)
(* same files is SpecRace, where each instance takes a step at each of its *)
(* reads and writes (instance_pc and the variables after it); the other    *)
(* specifications leave these variables as they are.                       *)
(*                                                                         *)
(* The login monitor (src/task3/login_monitor.py) is a second program with *)
(* files of its own: accounts.json -> accounts, login_attempts.txt ->      *)
(* last_event (its last line).  main_menu loads accounts.json when an       *)
(* option is chosen; the function called works on that copy, waits at its  *)
(* prompts and writes the whole copy back, with no lock on the file.  Two  *)
(* instances of the monitor run on the same files, each with its own copy. *)
(* The clock, datetime.now(), is `now`, counted in                         *)
(* ticks of a fraction of a second and taken never to go back; the         *)
(* timestamps the program stores are cut to whole seconds.  The actions of *)
(* one program leave the state of the other unchanged.                     *)
(***************************************************************************)
EXTENDS Integers, Sequences, FiniteSets, Bags, TLC

VARIABLES
    queue_file,      \* job_queue.txt: sequence of lines, each a sequence of parts
    completed_file,  \* completed_jobs.txt: sequence of completed records
    log_file,        \* scheduler_log.txt: sequence of logged events
    out,             \* the last message printed to the console
    pc,              \* position of the program: "menu" or a place in a run
    jobs,            \* local `jobs` of the scheduling function
    sorted_jobs,     \* local `sorted_jobs` of priority_scheduling
    idx,             \* position of the running for loop (1-based)
    cycle,           \* local `cycle` of round_robin_scheduling
    execution_log,   \* local `execution_log` of round_robin_scheduling
    trace_slot,      \* history: for each execution event of the run, the
                     \* position in `jobs` of the job it was emitted for
    pending0,        \* history: the queue file when the last run was entered
    completed0,      \* history: length of the ledger when the run was entered
    log0,            \* history: length of the log when the run was entered
    failed_writes,   \* history: how many writes to a file have failed
    accounts,        \* accounts.json: username -> account record
    last_event,      \* the last line of login_attempts.txt (<<>>: no line)
    now,             \* datetime.now(), in ticks
    advances,        \* history: how often the clock was moved on
    streak,          \* history: username -> wrong-password logins since the
                     \* account was created, logged in to or unlocked
    monitor_pc,      \* instance -> where it waits: "menu", or the prompt
                     \* of the function it is in
    monitor_accounts,\* instance -> local `accounts` of the function it is
                     \* in: the copy of accounts.json it loaded
    monitor_username,\* instance -> local `username` of login()
    monitor_event,   \* instance -> the line it is about to add to
                     \* login_attempts.txt (<<>>: none)
    operations,      \* history: how many options of the login monitor were
                     \* chosen
    instance_pc,     \* SpecRace: instance of the scheduler -> where it is,
                     \* "menu" or a place between two of its reads and writes
    instance_jobs,   \* SpecRace: instance -> local `jobs` (`sorted_jobs` in
                     \* priority_scheduling) of the function it is in
    instance_idx,    \* SpecRace: instance -> position of its for loop
                     \* (1-based)
    instance_event,  \* SpecRace: instance -> the message it is about to
                     \* log (<<>>: none)
    log_exists       \* SpecRace: scheduler_log.txt exists, with or without
                     \* a line in it

login_state == <<accounts, last_event, now, advances, streak, monitor_pc,
                 monitor_accounts, monitor_username, monitor_event, operations>>

instances == <<instance_pc, instance_jobs, instance_idx, instance_event,
               log_exists>>

vars == <<queue_file, completed_file, log_file, out, pc, jobs, sorted_jobs,
          idx, cycle, execution_log, trace_slot, pending0, completed0, log0,
          failed_writes, instances, login_state>>

scheduler_state ==
    <<queue_file, completed_file, log_file, out, pc, jobs, sorted_jobs,
      idx, cycle, execution_log, trace_slot, pending0, completed0, log0,
      failed_writes, instances>>

files == <<queue_file, completed_file, log_file>>
locals == <<jobs, sorted_jobs, idx, cycle, execution_log>>
marks == <<trace_slot, pending0, completed0, log0, failed_writes>>

----------------------------------------------------------------------------
(* Bounds of the model *)

\* submissions and views logged in a behaviour of Spec
MaxSubmits == 3
\* length of the queue file a behaviour of SpecRun starts from
MaxJobs == 2
\* largest execution time of a job in a behaviour of SpecRun
MaxTime == 11
\* times the clock is moved on in a behaviour of SpecLogin
MaxAdvances == 2
\* options chosen at the menus of the login monitor in a behaviour of
\* SpecLogin
MaxOperations == 5

\* writes that fail in a behaviour of SpecFail
MaxFailedWrites == 1
\* lines of the log file in a behaviour of SpecRace
MaxRaceLog == 7

(* Program constants *)

TIME_QUANTUM == 5
MIN_PRIORITY == 1
MAX_PRIORITY == 10

(* Console messages (the static text of the print calls) *)

MsgNoJobsToProcess == "No jobs in queue to process."
MsgNoJobsToSchedule == "No jobs to schedule."
MsgInvalidChoice == "Invalid choice. Returning to main menu."
MsgRRHeader == "ROUND ROBIN SCHEDULING (Time Quantum = 5 seconds)"
MsgRRCycle == "--- Cycle ---"
MsgRRRunning == "Running"
MsgRRCompleted == "COMPLETED"
MsgRRDone == "All jobs completed using Round Robin scheduling."
MsgPRHeader == "PRIORITY SCHEDULING (Highest Priority First)"
MsgPRRow == "row"
MsgPRDone == "All jobs completed using Priority scheduling."
MsgSubmitted == "Job submitted successfully!"
MsgEmptyStudent == "Error: Student ID cannot be empty."
MsgEmptyName == "Error: Job name cannot be empty."
MsgBadTime == "Error: Execution time must be a positive integer."
MsgBadPriority == "Error: Priority must be between 1 and 10."
MsgInvalidTime == "Error: Invalid execution time. Please enter a whole number."
MsgInvalidPriority == "Error: Invalid priority. Please enter a number between 1 and 10."
MsgLedgerError == "Error recording completed job"
MsgChoicePrompt == "Enter your choice [1-2]: "
MsgNoPending == "No pending jobs in the queue."
MsgPendingTable == "PENDING JOBS"
MsgNoCompleted == "No completed jobs recorded yet."
MsgCompletedTable == "COMPLETED JOBS"
MsgBye == "Bye"
MsgExitCancelled == "Exit cancelled. Returning to main menu."
MsgExitInvalid == "Invalid input. Exit cancelled."
MsgInvalidOption == "Invalid option. Please choose a number between 1 and 5."
MsgSubmitError == "Error: Failed to submit job"
MsgTraceback == "Traceback (most recent call last)"

----------------------------------------------------------------------------
(* Helpers on sequences *)

RECURSIVE SumSeq(_)
SumSeq(s) == IF s = <<>> THEN 0 ELSE Head(s) + SumSeq(Tail(s))

\* the bag (multiset) of the elements of a sequence
RECURSIVE BagOfSeq(_)
BagOfSeq(s) == IF s = <<>> THEN EmptyBag
               ELSE BagOfSeq(Tail(s)) (+) SetToBag({Head(s)})

\* the elements of s from position n+1 on
Suffix(s, n) == SubSeq(s, n + 1, Len(s))

\* ceil(a / b) for a >= 0, b > 0
CeilDiv(a, b) == (a + b - 1) \div b

Min(a, b) == IF a <= b THEN a ELSE b

----------------------------------------------------------------------------
(* The files *)

\* a text where a number is expected, typed at a prompt or standing in a
\* line of the queue file: the text of a whole number, or a text that int()
\* (lines 47-48, 135, 147) refuses with ValueError
Whole(n) == [whole |-> TRUE, value |-> n]
NotWhole == [whole |-> FALSE, value |-> 0]

\* str.strip() (lines 121, 126, 335) of the texts typed below
Strip(text) ==
    IF text = " " THEN ""
    ELSE IF text = " 1" THEN "1"
    ELSE IF text = " n" THEN "n"
    ELSE IF text = " u1 " THEN "u1"
    ELSE IF text = " pw" THEN "pw"
    ELSE IF text = " ADMIN " THEN "ADMIN"
    ELSE text

\* str.split("|") of a text field: the pieces between the separators (the
\* fields of the inputs below, and any text without a separator)
Parts(text) == IF text = "A|X" THEN <<"A", "X">> ELSE <<text>>

\* the line submit_job and save_jobs write, as line.split("|") reads it
\* back: the separator is not escaped, so a separator inside a field
\* splits the field
FormatLine(student_id, job_name, exec_time, priority) ==
    Parts(student_id) \o Parts(job_name) \o <<Whole(exec_time), Whole(priority)>>

\* the dict load_jobs builds from a line of four parts, the last two of
\* them whole numbers (lines 44-54)
ParseLine(parts) ==
    [student_id |-> parts[1], job_name |-> parts[2],
     exec_time |-> parts[3].value, priority |-> parts[4].value]

\* lines 38-41 and 46-48, 56-58: a line is kept if it splits into four
\* parts and int() takes the last two
IsJobLine(parts) ==
    /\ Len(parts) = 4
    /\ parts[3].whole
    /\ parts[4].whole

\* faulty variant: lines that submit_job would have refused are skipped too
load_jobs_validating(file) ==
    LET good == SelectSeq(file, LAMBDA parts :
                    IsJobLine(parts) /\ parts[3].value > 0
                    /\ parts[4].value >= 1 /\ parts[4].value <= 10)
    IN  [k \in 1..Len(good) |-> ParseLine(good[k])]

\* load_jobs(): lines that do not split into four parts, or whose
\* exec_time or priority is not a whole number, are skipped
load_jobs(file) ==
    LET good == SelectSeq(file, IsJobLine)
    IN  [k \in 1..Len(good) |-> ParseLine(good[k])]

\* faulty variant: the file is opened with "a": the lines are added to it
save_jobs_append(file, js) ==
    file \o [k \in 1..Len(js) |->
        FormatLine(js[k].student_id, js[k].job_name, js[k].exec_time, js[k].priority)]

\* save_jobs(jobs): the file is opened with "w", which truncates it, and one
\* line per job is written
save_jobs(file, js) ==
    [k \in 1..Len(js) |->
        FormatLine(js[k].student_id, js[k].job_name, js[k].exec_time, js[k].priority)]

\* faulty variant: the empty queue is not noticed
NoJobsNever(loaded) == FALSE

\* `if not jobs`: the test each scheduling function makes on what it loaded
NoJobs(loaded) == loaded = <<>>

\* faulty variant: the time the job has left is written as its exec_time
CompletedRecordRemaining(job, algorithm) ==
    [student_id |-> job.student_id, job_name |-> job.job_name,
     exec_time |-> IF "remaining" \in DOMAIN job THEN job.remaining
                   ELSE job.exec_time,
     priority |-> job.priority, algorithm |-> algorithm]

\* the line append_completed_job writes for `job`
CompletedRecord(job, algorithm) ==
    [student_id |-> job.student_id, job_name |-> job.job_name,
     exec_time |-> job.exec_time, priority |-> job.priority,
     algorithm |-> algorithm]

append_completed_job(file, job, algorithm) ==
    Append(file, CompletedRecord(job, algorithm))

log_event(file, message) == Append(file, message)

----------------------------------------------------------------------------
(* The log events (the message text of each log_event call, by its fields) *)

SubmissionEvent(student_id, job_name, exec_time, priority) ==
    [event |-> "JOB_SUBMISSION", student_id |-> student_id,
     job_name |-> job_name, exec_time |-> exec_time, priority |-> priority]

\* faulty variant: the remaining time is logged as the run time
RRExecutionEventRemaining(job, run_time) ==
    [event |-> "RR_EXECUTION", student_id |-> job.student_id,
     job_name |-> job.job_name, run_time |-> job.remaining,
     remaining |-> job.remaining]

RRExecutionEvent(job, run_time) ==
    [event |-> "RR_EXECUTION", student_id |-> job.student_id,
     job_name |-> job.job_name, run_time |-> run_time,
     remaining |-> job.remaining]

PriorityExecutionEvent(job) ==
    [event |-> "PRIORITY_EXECUTION", student_id |-> job.student_id,
     job_name |-> job.job_name, exec_time |-> job.exec_time,
     priority |-> job.priority]

\* lines 391-392: logged when the program starts and finds no log file
InitializedEvent == [event |-> "INITIALIZED"]

RunCompletedEvent(algorithm, count) ==
    [event |-> "SCHEDULING_COMPLETED", algorithm |-> algorithm, count |-> count]

\* line 112
ViewedPendingEvent(count) == [event |-> "VIEWED_PENDING", count |-> count]

\* line 315
ViewedCompletedEvent(count) == [event |-> "VIEWED_COMPLETED", count |-> count]

\* line 352
ExitedEvent == [event |-> "EXITED"]

\* submissions and views recorded in the log so far (menu options 1, 2, 4)
NumLogged ==
    Cardinality({k \in 1..Len(log_file) :
                    log_file[k].event \in {"JOB_SUBMISSION", "VIEWED_PENDING",
                                           "VIEWED_COMPLETED"}})

----------------------------------------------------------------------------
(* submit_job *)

\* the checks submit_job makes on its four inputs, in the order it makes
\* them: the message of the first failed check, or MsgSubmitted
SubmitVerdict(student_id, job_name, exec_time, priority) ==
    IF student_id = "" THEN MsgEmptyStudent
    ELSE IF job_name = "" THEN MsgEmptyName
    ELSE IF exec_time <= 0 THEN MsgBadTime
    ELSE IF priority < MIN_PRIORITY \/ priority > MAX_PRIORITY THEN MsgBadPriority
    ELSE MsgSubmitted

submit_job(student_id, job_name, exec_time, priority) ==
    /\ pc = "menu"
    /\ NumLogged < MaxSubmits
    /\ out' = SubmitVerdict(student_id, job_name, exec_time, priority)
    /\ IF out' = MsgSubmitted
       THEN /\ queue_file' = Append(queue_file,
                    FormatLine(student_id, job_name, exec_time, priority))
            /\ log_file' = log_event(log_file,
                    SubmissionEvent(student_id, job_name, exec_time, priority))
       ELSE UNCHANGED <<queue_file, log_file>>
    /\ UNCHANGED <<completed_file, pc, locals, marks>>
    /\ UNCHANGED <<instances, login_state>>

\* faulty variant: the range check is off by one at both ends
TypedVerdictWide(student_id, job_name, time_typed, priority_typed) ==
    IF student_id = "" THEN MsgEmptyStudent
    ELSE IF job_name = "" THEN MsgEmptyName
    ELSE IF ~time_typed.whole THEN MsgInvalidTime
    ELSE IF time_typed.value < 0 THEN MsgBadTime
    ELSE IF ~priority_typed.whole THEN MsgInvalidPriority
    ELSE IF priority_typed.value < MIN_PRIORITY - 1
            \/ priority_typed.value > MAX_PRIORITY + 1 THEN MsgBadPriority
    ELSE MsgSubmitted

\* lines 121-153 on what was typed: the message of the first failed check
TypedVerdict(student_id, job_name, time_typed, priority_typed) ==
    IF student_id = "" THEN MsgEmptyStudent
    ELSE IF job_name = "" THEN MsgEmptyName
    ELSE IF ~time_typed.whole THEN MsgInvalidTime
    ELSE IF time_typed.value <= 0 THEN MsgBadTime
    ELSE IF ~priority_typed.whole THEN MsgInvalidPriority
    ELSE IF priority_typed.value < MIN_PRIORITY
            \/ priority_typed.value > MAX_PRIORITY THEN MsgBadPriority
    ELSE MsgSubmitted

\* submit_job() from the texts typed at its four prompts
submit_job_typed(student_typed, name_typed, time_typed, priority_typed) ==
    LET student_id == Strip(student_typed)
        job_name == Strip(name_typed)
        exec_time == time_typed.value
        priority == priority_typed.value
    IN  /\ pc = "menu"
        /\ NumLogged < MaxSubmits
        /\ out' = TypedVerdict(student_id, job_name, time_typed, priority_typed)
        /\ IF out' = MsgSubmitted
           THEN /\ queue_file' = Append(queue_file,
                        FormatLine(student_id, job_name, exec_time, priority))
                /\ log_file' = log_event(log_file,
                        SubmissionEvent(student_id, job_name, exec_time, priority))
           ELSE UNCHANGED <<queue_file, log_file>>
        /\ UNCHANGED <<completed_file, pc, locals, marks>>
        /\ UNCHANGED <<instances, login_state>>

----------------------------------------------------------------------------
(* round_robin_scheduling *)

\* line 190: job["remaining"] = job["exec_time"]
WithRemaining(job) ==
    [student_id |-> job.student_id, job_name |-> job.job_name,
     exec_time |-> job.exec_time, priority |-> job.priority,
     remaining |-> job.exec_time]

\* faulty variant: the slice is always a whole quantum
RunTimeFullQuantum(remaining) == TIME_QUANTUM

\* faulty variant: the job runs to its end in one slice
RunTimeWhole(remaining) == remaining

\* line 204: run_time = min(TIME_QUANTUM, job["remaining"])
RunTime(remaining) == Min(TIME_QUANTUM, remaining)

\* faulty variant: the slice is not taken off the remaining time
DeductNothing(remaining, run_time) == remaining

\* line 205: job["remaining"] -= run_time
Deduct(remaining, run_time) == remaining - run_time

\* faulty variant: all() in place of any()
AllRemaining(js) == \A k \in 1..Len(js) : js[k].remaining > 0

\* line 196: any(job["remaining"] > 0 for job in jobs)
AnyRemaining(js) == \E k \in 1..Len(js) : js[k].remaining > 0

\* faulty variant: a finished job is visited like any other
ShouldSkipNever(job) == FALSE

\* lines 200-201: a job with nothing left is passed over
ShouldSkip(job) == job.remaining <= 0

\* faulty variant: a job is recorded once less than a quantum is left
IsCompletedSoon(job) == job.remaining < TIME_QUANTUM

\* lines 225-226: is the job recorded as completed after this slice
IsCompleted(job) == job.remaining = 0

\* lines 177-193: load the queue; return if it is empty; else set up the run
round_robin_scheduling_body ==
    /\ LET loaded == load_jobs(queue_file) IN
       IF NoJobs(loaded)
       THEN /\ out' = MsgNoJobsToSchedule
            /\ pc' = "menu"
            /\ UNCHANGED <<files, locals, marks>>
       ELSE /\ out' = MsgRRHeader
            /\ jobs' = [k \in 1..Len(loaded) |-> WithRemaining(loaded[k])]
            /\ execution_log' = <<>>
            /\ cycle' = 1
            /\ idx' = 1
            /\ pc' = "rr_while"
            /\ trace_slot' = <<>>
            /\ pending0' = queue_file
            /\ completed0' = Len(completed_file)
            /\ log0' = Len(log_file)
            /\ UNCHANGED failed_writes
            /\ UNCHANGED <<files, sorted_jobs>>
    /\ UNCHANGED <<instances, login_state>>

\* round_robin_scheduling() called from the menu loop
round_robin_scheduling ==
    /\ pc = "menu"
    /\ round_robin_scheduling_body

\* lines 196-197: the while test holds, a cycle starts
rr_cycle_start ==
    /\ pc = "rr_while"
    /\ AnyRemaining(jobs)
    /\ out' = MsgRRCycle
    /\ idx' = 1
    /\ pc' = "rr_for"
    /\ UNCHANGED <<files, jobs, sorted_jobs, cycle, execution_log, marks>>
    /\ UNCHANGED <<instances, login_state>>

\* lines 199-227: one iteration of the for loop, on jobs[idx]
rr_visit ==
    /\ pc = "rr_for"
    /\ idx <= Len(jobs)
    /\ idx' = idx + 1
    /\ IF ShouldSkip(jobs[idx])
       THEN UNCHANGED <<files, out, jobs, execution_log, trace_slot>>
       ELSE LET run_time == RunTime(jobs[idx].remaining)
                job == [jobs[idx] EXCEPT !.remaining = Deduct(@, run_time)]
            IN  /\ jobs' = [jobs EXCEPT ![idx] = job]
                /\ execution_log' = Append(execution_log,
                       [student_id |-> job.student_id, job_name |-> job.job_name,
                        run_time |-> run_time, remaining |-> job.remaining])
                /\ log_file' = log_event(log_file, RRExecutionEvent(job, run_time))
                /\ trace_slot' = Append(trace_slot, idx)
                /\ IF IsCompleted(job)
                   THEN /\ completed_file' =
                               append_completed_job(completed_file, job, "RoundRobin")
                        /\ out' = MsgRRCompleted
                   ELSE /\ out' = MsgRRRunning
                        /\ UNCHANGED completed_file
                /\ UNCHANGED queue_file
    /\ UNCHANGED <<pc, sorted_jobs, cycle, pending0, completed0, log0,
                   failed_writes>>
    /\ UNCHANGED <<instances, login_state>>

\* lines 229-230: the for loop is over, the cycle ends
rr_cycle_end ==
    /\ pc = "rr_for"
    /\ idx > Len(jobs)
    /\ cycle' = cycle + 1
    /\ out' = ""
    /\ pc' = "rr_while"
    /\ UNCHANGED <<files, jobs, sorted_jobs, idx, execution_log, marks>>
    /\ UNCHANGED <<instances, login_state>>

\* lines 196, 232-239: the while test fails; the queue is cleared
rr_finish ==
    /\ pc = "rr_while"
    /\ ~AnyRemaining(jobs)
    /\ queue_file' = save_jobs(queue_file, <<>>)
    /\ out' = MsgRRDone
    /\ log_file' = log_event(log_file, RunCompletedEvent("RoundRobin", Len(jobs)))
    /\ pc' = "menu"
    /\ UNCHANGED <<completed_file, locals, marks>>
    /\ UNCHANGED <<instances, login_state>>

----------------------------------------------------------------------------
(* priority_scheduling *)

\* faulty variant: a job goes in front of the jobs of its own priority
InsertByPriorityUnstable(order, i, js) ==
    SelectSeq(order, LAMBDA j : js[j].priority > js[i].priority)
    \o <<i>>
    \o SelectSeq(order, LAMBDA j : js[j].priority <= js[i].priority)

\* faulty variant: ascending order: reverse=True is missing
InsertByPriorityAscending(order, i, js) ==
    SelectSeq(order, LAMBDA j : js[j].priority <= js[i].priority)
    \o <<i>>
    \o SelectSeq(order, LAMBDA j : js[j].priority > js[i].priority)

\* where sorted() puts position i among the positions `order` already
\* placed: behind every job of the same or a higher priority (the sort is
\* stable, also with reverse=True)
InsertByPriority(order, i, js) ==
    SelectSeq(order, LAMBDA j : js[j].priority >= js[i].priority)
    \o <<i>>
    \o SelectSeq(order, LAMBDA j : js[j].priority < js[i].priority)

\* the positions 1..n of js in the order sorted(..., reverse=True) gives them
RECURSIVE SortedOrder(_, _)
SortedOrder(js, n) ==
    IF n = 0 THEN <<>> ELSE InsertByPriority(SortedOrder(js, n - 1), n, js)

\* line 254: sorted(jobs, key=lambda j: j["priority"], reverse=True)
sorted_by_priority(js) ==
    LET order == SortedOrder(js, Len(js))
    IN  [k \in 1..Len(js) |-> js[order[k]]]

\* lines 243-257: load the queue; return if it is empty; else sort
priority_scheduling_body ==
    /\ LET loaded == load_jobs(queue_file) IN
       IF NoJobs(loaded)
       THEN /\ out' = MsgNoJobsToSchedule
            /\ pc' = "menu"
            /\ UNCHANGED <<files, locals, marks>>
       ELSE /\ out' = MsgPRHeader
            /\ jobs' = loaded
            /\ sorted_jobs' = sorted_by_priority(loaded)
            /\ idx' = 1
            /\ pc' = "pr_for"
            /\ trace_slot' = <<>>
            /\ pending0' = queue_file
            /\ completed0' = Len(completed_file)
            /\ log0' = Len(log_file)
            /\ UNCHANGED failed_writes
            /\ UNCHANGED <<files, cycle, execution_log>>
    /\ UNCHANGED <<instances, login_state>>

\* priority_scheduling() called from the menu loop
priority_scheduling ==
    /\ pc = "menu"
    /\ priority_scheduling_body

\* lines 259-271: one iteration of the for loop, on sorted_jobs[idx]
pr_dispatch ==
    /\ pc = "pr_for"
    /\ idx <= Len(sorted_jobs)
    /\ LET job == sorted_jobs[idx] IN
       /\ out' = MsgPRRow
       /\ log_file' = log_event(log_file, PriorityExecutionEvent(job))
       /\ completed_file' = append_completed_job(completed_file, job, "Priority")
    /\ trace_slot' = Append(trace_slot, SortedOrder(jobs, Len(jobs))[idx])
    /\ idx' = idx + 1
    /\ UNCHANGED <<queue_file, pc, jobs, sorted_jobs, cycle, execution_log,
                   pending0, completed0, log0, failed_writes>>
    /\ UNCHANGED <<instances, login_state>>

\* lines 273-280: the for loop is over; the queue is cleared
pr_finish ==
    /\ pc = "pr_for"
    /\ idx > Len(sorted_jobs)
    /\ queue_file' = save_jobs(queue_file, <<>>)
    /\ out' = MsgPRDone
    /\ log_file' = log_event(log_file,
                             RunCompletedEvent("Priority", Len(sorted_jobs)))
    /\ pc' = "menu"
    /\ UNCHANGED <<completed_file, locals, marks>>
    /\ UNCHANGED <<instances, login_state>>

----------------------------------------------------------------------------
(* A write fails (open() or write() raises) *)

\* lines 204-222 with log_event raising: the slice is already taken off the
\* job and entered in execution_log; log_event (lines 18-22) catches
\* nothing, so the exception leaves round_robin_scheduling and the program
rr_visit_log_fails ==
    /\ pc = "rr_for"
    /\ idx <= Len(jobs)
    /\ ~ShouldSkip(jobs[idx])
    /\ failed_writes < MaxFailedWrites
    /\ failed_writes' = failed_writes + 1
    /\ LET run_time == RunTime(jobs[idx].remaining)
           job == [jobs[idx] EXCEPT !.remaining = Deduct(@, run_time)]
       IN  /\ jobs' = [jobs EXCEPT ![idx] = job]
           /\ execution_log' = Append(execution_log,
                  [student_id |-> job.student_id, job_name |-> job.job_name,
                   run_time |-> run_time, remaining |-> job.remaining])
    /\ out' = MsgTraceback
    /\ pc' = "aborted"
    /\ UNCHANGED <<files, sorted_jobs, idx, cycle, trace_slot, pending0,
                   completed0, log0>>
    /\ UNCHANGED <<instances, login_state>>

\* lines 204-227 with append_completed_job failing on the job's last slice:
\* the except clause (lines 87-88) prints the error, line 227 prints that
\* the job completed, and the loop goes on
rr_visit_ledger_fails ==
    /\ pc = "rr_for"
    /\ idx <= Len(jobs)
    /\ ~ShouldSkip(jobs[idx])
    /\ failed_writes < MaxFailedWrites
    /\ failed_writes' = failed_writes + 1
    /\ LET run_time == RunTime(jobs[idx].remaining)
           job == [jobs[idx] EXCEPT !.remaining = Deduct(@, run_time)]
       IN  /\ IsCompleted(job)
           /\ jobs' = [jobs EXCEPT ![idx] = job]
           /\ execution_log' = Append(execution_log,
                  [student_id |-> job.student_id, job_name |-> job.job_name,
                   run_time |-> run_time, remaining |-> job.remaining])
           /\ log_file' = log_event(log_file, RRExecutionEvent(job, run_time))
    /\ trace_slot' = Append(trace_slot, idx)
    /\ out' = MsgRRCompleted
    /\ idx' = idx + 1
    /\ UNCHANGED <<queue_file, completed_file, pc, sorted_jobs, cycle,
                   pending0, completed0, log0>>
    /\ UNCHANGED <<instances, login_state>>

\* lines 232-233 with save_jobs failing: the except clause (lines 74-75)
\* prints the error, the queue file keeps its jobs, and the function goes
\* on to its last message and log line
rr_finish_save_fails ==
    /\ pc = "rr_while"
    /\ ~AnyRemaining(jobs)
    /\ failed_writes < MaxFailedWrites
    /\ failed_writes' = failed_writes + 1
    /\ out' = MsgRRDone
    /\ log_file' = log_event(log_file, RunCompletedEvent("RoundRobin", Len(jobs)))
    /\ pc' = "menu"
    /\ UNCHANGED <<queue_file, completed_file, locals, trace_slot, pending0,
                   completed0, log0>>
    /\ UNCHANGED <<instances, login_state>>

\* lines 232-239 with the last log_event raising: the queue is cleared and
\* the last message printed, then the exception leaves the program
rr_finish_log_fails ==
    /\ pc = "rr_while"
    /\ ~AnyRemaining(jobs)
    /\ failed_writes < MaxFailedWrites
    /\ failed_writes' = failed_writes + 1
    /\ queue_file' = save_jobs(queue_file, <<>>)
    /\ out' = MsgTraceback
    /\ pc' = "aborted"
    /\ UNCHANGED <<completed_file, log_file, locals, trace_slot, pending0,
                   completed0, log0>>
    /\ UNCHANGED <<instances, login_state>>

\* lines 259-268 with log_event raising: the exception leaves
\* priority_scheduling and the program before the job is recorded
pr_dispatch_log_fails ==
    /\ pc = "pr_for"
    /\ idx <= Len(sorted_jobs)
    /\ failed_writes < MaxFailedWrites
    /\ failed_writes' = failed_writes + 1
    /\ out' = MsgTraceback
    /\ pc' = "aborted"
    /\ UNCHANGED <<files, locals, trace_slot, pending0, completed0, log0>>
    /\ UNCHANGED <<instances, login_state>>

\* lines 259-271 with append_completed_job failing: the error is printed
\* and the loop goes on
pr_dispatch_ledger_fails ==
    /\ pc = "pr_for"
    /\ idx <= Len(sorted_jobs)
    /\ failed_writes < MaxFailedWrites
    /\ failed_writes' = failed_writes + 1
    /\ log_file' = log_event(log_file, PriorityExecutionEvent(sorted_jobs[idx]))
    /\ trace_slot' = Append(trace_slot, SortedOrder(jobs, Len(jobs))[idx])
    /\ out' = MsgLedgerError
    /\ idx' = idx + 1
    /\ UNCHANGED <<queue_file, completed_file, pc, jobs, sorted_jobs, cycle,
                   execution_log, pending0, completed0, log0>>
    /\ UNCHANGED <<instances, login_state>>

\* lines 273-274 with save_jobs failing: the queue file keeps its jobs and
\* the function goes on to its last message and log line
pr_finish_save_fails ==
    /\ pc = "pr_for"
    /\ idx > Len(sorted_jobs)
    /\ failed_writes < MaxFailedWrites
    /\ failed_writes' = failed_writes + 1
    /\ out' = MsgPRDone
    /\ log_file' = log_event(log_file,
                             RunCompletedEvent("Priority", Len(sorted_jobs)))
    /\ pc' = "menu"
    /\ UNCHANGED <<queue_file, completed_file, locals, trace_slot, pending0,
                   completed0, log0>>
    /\ UNCHANGED <<instances, login_state>>

\* lines 273-280 with the last log_event raising: the queue is cleared and
\* the last message printed, then the exception leaves the program
pr_finish_log_fails ==
    /\ pc = "pr_for"
    /\ idx > Len(sorted_jobs)
    /\ failed_writes < MaxFailedWrites
    /\ failed_writes' = failed_writes + 1
    /\ queue_file' = save_jobs(queue_file, <<>>)
    /\ out' = MsgTraceback
    /\ pc' = "aborted"
    /\ UNCHANGED <<completed_file, log_file, locals, trace_slot, pending0,
                   completed0, log0>>
    /\ UNCHANGED <<instances, login_state>>

\* lines 155-158 with the write to the queue file failing: the except
\* clause (lines 171-172) prints the error; nothing is written
submit_job_queue_fails(student_id, job_name, exec_time, priority) ==
    /\ pc = "menu"
    /\ SubmitVerdict(student_id, job_name, exec_time, priority) = MsgSubmitted
    /\ failed_writes < MaxFailedWrites
    /\ failed_writes' = failed_writes + 1
    /\ out' = MsgSubmitError
    /\ UNCHANGED <<files, pc, locals, trace_slot, pending0, completed0, log0>>
    /\ UNCHANGED <<instances, login_state>>

\* lines 155-169 with log_event raising: the job is in the queue file and
\* reported as submitted, its log line is missing, and the except clause
\* (lines 171-172) prints the error
submit_job_log_fails(student_id, job_name, exec_time, priority) ==
    /\ pc = "menu"
    /\ SubmitVerdict(student_id, job_name, exec_time, priority) = MsgSubmitted
    /\ failed_writes < MaxFailedWrites
    /\ failed_writes' = failed_writes + 1
    /\ queue_file' = Append(queue_file,
                            FormatLine(student_id, job_name, exec_time, priority))
    /\ out' = MsgSubmitError
    /\ UNCHANGED <<completed_file, log_file, pc, locals, trace_slot, pending0,
                   completed0, log0>>
    /\ UNCHANGED <<instances, login_state>>

----------------------------------------------------------------------------
(* process_job_queue *)

\* faulty variant: any other answer runs Round Robin
DispatchDefault(choice) ==
    IF choice = "2" THEN "Priority" ELSE "RoundRobin"

\* lines 337-342: which function the menu choice selects
Dispatch(choice) ==
    IF choice = "1" THEN "RoundRobin"
    ELSE IF choice = "2" THEN "Priority"
    ELSE "None"

\* lines 322-335: load the queue; return if it is empty; else show the
\* algorithms and wait at the prompt for the answer
process_job_queue ==
    /\ pc = "menu"
    /\ IF NoJobs(load_jobs(queue_file))
       THEN /\ out' = MsgNoJobsToProcess
            /\ UNCHANGED pc
       ELSE /\ out' = MsgChoicePrompt
            /\ pc' = "choice"
    /\ UNCHANGED <<files, locals, marks>>
    /\ UNCHANGED <<instances, login_state>>

\* lines 335-342: the answer is stripped and selects the function, which
\* loads the queue again
process_job_queue_choice(choice) ==
    /\ pc = "choice"
    /\ CASE Dispatch(Strip(choice)) = "RoundRobin" -> round_robin_scheduling_body
         [] Dispatch(Strip(choice)) = "Priority" -> priority_scheduling_body
         [] OTHER -> /\ out' = MsgInvalidChoice
                     /\ pc' = "menu"
                     /\ UNCHANGED <<files, locals, marks>>
                     /\ UNCHANGED <<instances, login_state>>

----------------------------------------------------------------------------
(* view_pending_jobs, view_completed_jobs, bye_exit, main_menu *)

\* lines 93-112: the pending jobs are shown, and the view is logged when
\* there is a job to show
view_pending_jobs ==
    /\ pc = "menu"
    /\ LET loaded == load_jobs(queue_file) IN
       IF NoJobs(loaded)
       THEN /\ out' = MsgNoPending
            /\ UNCHANGED log_file
       ELSE /\ NumLogged < MaxSubmits
            /\ out' = MsgPendingTable
            /\ log_file' = log_event(log_file, ViewedPendingEvent(Len(loaded)))
    /\ UNCHANGED <<queue_file, completed_file, pc, locals, marks>>
    /\ UNCHANGED <<instances, login_state>>

\* lines 284-315: the lines of the ledger are shown, and the view is logged
\* when there is a line to show
view_completed_jobs ==
    /\ pc = "menu"
    /\ IF completed_file = <<>>
       THEN /\ out' = MsgNoCompleted
            /\ UNCHANGED log_file
       ELSE /\ NumLogged < MaxSubmits
            /\ out' = MsgCompletedTable
            /\ log_file' = log_event(log_file,
                                     ViewedCompletedEvent(Len(completed_file)))
    /\ UNCHANGED <<queue_file, completed_file, pc, locals, marks>>
    /\ UNCHANGED <<instances, login_state>>

\* str.upper() on the answers that can be typed
Upper(text) ==
    IF text = "y" THEN "Y"
    ELSE IF text = "yes" THEN "YES"
    ELSE IF text = "n" THEN "N"
    ELSE IF text = "no" THEN "NO"
    ELSE IF text = "x" THEN "X"
    ELSE text

\* lines 347-357: on Y or YES the exit is logged and the program ends; any
\* other answer returns to the menu
bye_exit(confirm) ==
    /\ pc = "menu"
    /\ LET answer == Upper(Strip(confirm)) IN
       IF answer \in {"Y", "YES"}
       THEN /\ out' = MsgBye
            /\ log_file' = log_event(log_file, ExitedEvent)
            /\ pc' = "exited"
       ELSE /\ out' = IF answer \in {"N", "NO"} THEN MsgExitCancelled
                      ELSE MsgExitInvalid
            /\ UNCHANGED <<log_file, pc>>
    /\ UNCHANGED <<queue_file, completed_file, locals, marks>>
    /\ UNCHANGED <<instances, login_state>>

\* the options of the main menu
MenuOptions == {"1", "2", "3", "4", "5"}

\* lines 374-386: an answer that is none of the five options
main_menu_invalid(choice) ==
    /\ pc = "menu"
    /\ Strip(choice) \notin MenuOptions
    /\ out' = MsgInvalidOption
    /\ UNCHANGED <<files, pc, locals, marks>>
    /\ UNCHANGED <<instances, login_state>>

----------------------------------------------------------------------------
(* Instances of the program on the same three files, each taking a step   *)
(* at every read and every write of a file: an action is one read or one   *)
(* write, with the computation up to the next one.  The consoles are left  *)
(* out, and with them the answers that read and write no file.             *)

\* the instances of the program that run on the same three files
Instances == {"A", "B"}

\* the log file has fewer than MaxRaceLog lines
Room == Len(log_file) < MaxRaceLog

\* instance i goes on to the place `place`
Goto(i, place) == instance_pc' = [instance_pc EXCEPT ![i] = place]

\* line 391: the program starts and tests whether the log file exists
start_step(i) ==
    /\ Room
    /\ instance_pc[i] = "start"
    /\ Goto(i, IF log_exists THEN "menu" ELSE "start_log")
    /\ UNCHANGED <<files, instance_jobs, instance_idx, instance_event>>
    /\ UNCHANGED <<out, pc, locals, marks, login_state, log_exists>>

\* line 392, in log_event() line 21: open(SCHEDULER_LOG_FILE, "a") creates
\* the log file; the line is written when the file is closed
start_open_step(i) ==
    /\ Room
    /\ instance_pc[i] = "start_log"
    /\ log_exists' = TRUE
    /\ Goto(i, "start_write")
    /\ UNCHANGED <<files, instance_jobs, instance_idx, instance_event>>
    /\ UNCHANGED <<out, pc, locals, marks, login_state>>

\* line 392, in log_event() line 22: the start is logged
start_log_step(i) ==
    /\ Room
    /\ instance_pc[i] = "start_write"
    /\ log_file' = log_event(log_file, InitializedEvent)
    /\ Goto(i, "menu")
    /\ UNCHANGED <<queue_file, completed_file, instance_jobs, instance_idx,
                   instance_event>>
    /\ UNCHANGED <<out, pc, locals, marks, login_state, log_exists>>

\* the position the for loop of lines 199-201 visits next from position i:
\* the first job with time remaining at or after i, or else, the while
\* test of line 196 holding, the first such job of the next cycle
NextTurn(js, i) ==
    LET later == {k \in i..Len(js) : ~ShouldSkip(js[k])}
        all == {k \in 1..Len(js) : ~ShouldSkip(js[k])}
        turns == IF later # {} THEN later ELSE all
    IN  CHOOSE k \in turns : \A m \in turns : k <= m

\* submit_job(), lines 117-158: inputs that pass the checks; the line is
\* appended to the queue file
submit_job_step(i, student_id, job_name, exec_time, priority) ==
    /\ Room
    /\ instance_pc[i] = "menu"
    /\ NumLogged < MaxSubmits
    /\ SubmitVerdict(student_id, job_name, exec_time, priority) = MsgSubmitted
    /\ queue_file' = Append(queue_file,
                            FormatLine(student_id, job_name, exec_time, priority))
    /\ instance_event' = [instance_event EXCEPT ![i] =
           SubmissionEvent(student_id, job_name, exec_time, priority)]
    /\ Goto(i, "log_event")
    /\ UNCHANGED <<completed_file, log_file, instance_jobs, instance_idx>>
    /\ UNCHANGED <<out, pc, locals, marks, login_state, log_exists>>

\* view_pending_jobs(), lines 93-110: the queue is loaded and shown
view_pending_jobs_step(i) ==
    /\ Room
    /\ instance_pc[i] = "menu"
    /\ NumLogged < MaxSubmits
    /\ LET loaded == load_jobs(queue_file) IN
       /\ ~NoJobs(loaded)
       /\ instance_event' = [instance_event EXCEPT ![i] =
              ViewedPendingEvent(Len(loaded))]
    /\ Goto(i, "log_event")
    /\ UNCHANGED <<files, instance_jobs, instance_idx>>
    /\ UNCHANGED <<out, pc, locals, marks, login_state, log_exists>>

\* view_completed_jobs(), lines 284-314: the ledger is read and shown
view_completed_jobs_step(i) ==
    /\ Room
    /\ instance_pc[i] = "menu"
    /\ NumLogged < MaxSubmits
    /\ completed_file # <<>>
    /\ instance_event' = [instance_event EXCEPT ![i] =
           ViewedCompletedEvent(Len(completed_file))]
    /\ Goto(i, "log_event")
    /\ UNCHANGED <<files, instance_jobs, instance_idx>>
    /\ UNCHANGED <<out, pc, locals, marks, login_state, log_exists>>

\* the log_event() call that ends submit_job (lines 166-169),
\* view_pending_jobs (line 112) and view_completed_jobs (line 315)
log_event_step(i) ==
    /\ Room
    /\ instance_pc[i] = "log_event"
    /\ log_file' = log_event(log_file, instance_event[i])
    /\ instance_event' = [instance_event EXCEPT ![i] = <<>>]
    /\ Goto(i, "menu")
    /\ UNCHANGED <<queue_file, completed_file, instance_jobs, instance_idx>>
    /\ UNCHANGED <<out, pc, locals, marks, login_state, log_exists>>

\* bye_exit(), lines 347-353: the answer is Y or YES
bye_exit_step(i) ==
    /\ Room
    /\ instance_pc[i] = "menu"
    /\ log_file' = log_event(log_file, ExitedEvent)
    /\ Goto(i, "exited")
    /\ UNCHANGED <<queue_file, completed_file, instance_jobs, instance_idx, instance_event>>
    /\ UNCHANGED <<out, pc, locals, marks, login_state, log_exists>>

\* process_job_queue(), lines 322-335: the queue is loaded and has a job;
\* the instance waits at the prompt
process_job_queue_step(i) ==
    /\ Room
    /\ instance_pc[i] = "menu"
    /\ ~NoJobs(load_jobs(queue_file))
    /\ Goto(i, "choice")
    /\ UNCHANGED <<files, instance_jobs, instance_idx, instance_event>>
    /\ UNCHANGED <<out, pc, locals, marks, login_state, log_exists>>

\* lines 335-342, then lines 177-193 or 243-257: the answer at the prompt;
\* the function called loads the queue again
process_job_queue_choice_step(i, choice) ==
    /\ Room
    /\ instance_pc[i] = "choice"
    /\ LET loaded == load_jobs(queue_file)
           algorithm == Dispatch(Strip(choice))
       IN  IF algorithm = "None" \/ NoJobs(loaded)
           THEN /\ Goto(i, "menu")
                /\ UNCHANGED <<instance_jobs, instance_idx>>
           ELSE /\ instance_jobs' = [instance_jobs EXCEPT ![i] =
                       IF algorithm = "RoundRobin"
                       THEN [k \in 1..Len(loaded) |-> WithRemaining(loaded[k])]
                       ELSE sorted_by_priority(loaded)]
                /\ instance_idx' = [instance_idx EXCEPT ![i] = 1]
                /\ Goto(i, IF algorithm = "RoundRobin" THEN "rr_for" ELSE "pr_for")
    /\ UNCHANGED <<files, instance_event>>
    /\ UNCHANGED <<out, pc, locals, marks, login_state, log_exists>>

\* round_robin_scheduling(), lines 196-222: up to and with the log_event()
\* call of the next job that has time remaining
rr_visit_step(i) ==
    /\ Room
    /\ instance_pc[i] = "rr_for"
    /\ AnyRemaining(instance_jobs[i])
    /\ LET turn == NextTurn(instance_jobs[i], instance_idx[i])
           run_time == RunTime(instance_jobs[i][turn].remaining)
           job == [instance_jobs[i][turn] EXCEPT !.remaining = Deduct(@, run_time)]
       IN  /\ instance_jobs' = [instance_jobs EXCEPT ![i][turn] = job]
           /\ log_file' = log_event(log_file, RRExecutionEvent(job, run_time))
           /\ IF IsCompleted(job)
              THEN /\ instance_idx' = [instance_idx EXCEPT ![i] = turn]
                   /\ Goto(i, "rr_append")
              ELSE /\ instance_idx' = [instance_idx EXCEPT ![i] = turn + 1]
                   /\ UNCHANGED instance_pc
    /\ UNCHANGED <<queue_file, completed_file, instance_event>>
    /\ UNCHANGED <<out, pc, locals, marks, login_state, log_exists>>

\* lines 225-227: the job that has just completed is appended to the ledger
rr_append_step(i) ==
    /\ Room
    /\ instance_pc[i] = "rr_append"
    /\ completed_file' = append_completed_job(completed_file,
                                              instance_jobs[i][instance_idx[i]], "RoundRobin")
    /\ instance_idx' = [instance_idx EXCEPT ![i] = @ + 1]
    /\ Goto(i, "rr_for")
    /\ UNCHANGED <<queue_file, log_file, instance_jobs, instance_event>>
    /\ UNCHANGED <<out, pc, locals, marks, login_state, log_exists>>

\* lines 196, 232-233: the while test fails; save_jobs([])
rr_save_step(i) ==
    /\ Room
    /\ instance_pc[i] = "rr_for"
    /\ ~AnyRemaining(instance_jobs[i])
    /\ queue_file' = save_jobs(queue_file, <<>>)
    /\ Goto(i, "rr_log")
    /\ UNCHANGED <<completed_file, log_file, instance_jobs, instance_idx, instance_event>>
    /\ UNCHANGED <<out, pc, locals, marks, login_state, log_exists>>

\* line 239: the run is logged; round_robin_scheduling returns
rr_finish_step(i) ==
    /\ Room
    /\ instance_pc[i] = "rr_log"
    /\ log_file' = log_event(log_file,
                             RunCompletedEvent("RoundRobin", Len(instance_jobs[i])))
    /\ Goto(i, "menu")
    /\ UNCHANGED <<queue_file, completed_file, instance_jobs, instance_idx, instance_event>>
    /\ UNCHANGED <<out, pc, locals, marks, login_state, log_exists>>

\* priority_scheduling(), lines 259-268: the log_event() call of the next
\* job in priority order
pr_dispatch_step(i) ==
    /\ Room
    /\ instance_pc[i] = "pr_for"
    /\ instance_idx[i] <= Len(instance_jobs[i])
    /\ log_file' = log_event(log_file,
                             PriorityExecutionEvent(instance_jobs[i][instance_idx[i]]))
    /\ Goto(i, "pr_append")
    /\ UNCHANGED <<queue_file, completed_file, instance_jobs, instance_idx, instance_event>>
    /\ UNCHANGED <<out, pc, locals, marks, login_state, log_exists>>

\* line 271: the job is appended to the ledger
pr_append_step(i) ==
    /\ Room
    /\ instance_pc[i] = "pr_append"
    /\ completed_file' = append_completed_job(completed_file,
                                              instance_jobs[i][instance_idx[i]], "Priority")
    /\ instance_idx' = [instance_idx EXCEPT ![i] = @ + 1]
    /\ Goto(i, "pr_for")
    /\ UNCHANGED <<queue_file, log_file, instance_jobs, instance_event>>
    /\ UNCHANGED <<out, pc, locals, marks, login_state, log_exists>>

\* lines 273-274: the for loop is over; save_jobs([])
pr_save_step(i) ==
    /\ Room
    /\ instance_pc[i] = "pr_for"
    /\ instance_idx[i] > Len(instance_jobs[i])
    /\ queue_file' = save_jobs(queue_file, <<>>)
    /\ Goto(i, "pr_log")
    /\ UNCHANGED <<completed_file, log_file, instance_jobs, instance_idx, instance_event>>
    /\ UNCHANGED <<out, pc, locals, marks, login_state, log_exists>>

\* line 280: the run is logged; priority_scheduling returns
pr_finish_step(i) ==
    /\ Room
    /\ instance_pc[i] = "pr_log"
    /\ log_file' = log_event(log_file,
                             RunCompletedEvent("Priority", Len(instance_jobs[i])))
    /\ Goto(i, "menu")
    /\ UNCHANGED <<queue_file, completed_file, instance_jobs, instance_idx, instance_event>>
    /\ UNCHANGED <<out, pc, locals, marks, login_state, log_exists>>

----------------------------------------------------------------------------
(* The login monitor: src/task3/login_monitor.py *)

MAX_FAILED_ATTEMPTS == 3
LOCKOUT_DURATION_MINUTES == 30

\* ticks of the clock in a second: datetime.now() is finer than the whole
\* seconds of the timestamps the program stores
TicksPerSecond == 2

\* LOCKOUT_DURATION_MINUTES in ticks
LockTicks == LOCKOUT_DURATION_MINUTES * 60 * TicksPerSecond

\* None, and a stored timestamp
None == <<>>
Stamp(t) == <<t>>

\* datetime.now().strftime("%Y-%m-%d %H:%M:%S") read back by strptime: the
\* time t cut to the whole second
Strftime(t) == (t \div TicksPerSecond) * TicksPerSecond

\* hash_password(): SHA-256, taken to give different texts different hashes
hash_password(password) == <<"sha256", password>>

\* log_login_event(): the line added to login_attempts.txt
log_login_event(username, status) == [username |-> username, status |-> status]

\* get_lockout_status(account) at time t: is_locked (lines 68-75; elapsed / 60
\* < LOCKOUT_DURATION_MINUTES, in ticks)
get_lockout_status(account, t) ==
    /\ account.failed_attempts >= MAX_FAILED_ATTEMPTS
    /\ account.lockout_time # None
    /\ t - account.lockout_time[1] < LockTicks

\* accounts[username] = record: the dict with the entry set
SetAccount(dict, username, account) ==
    [u \in DOMAIN dict \cup {username} |->
        IF u = username THEN account ELSE dict[u]]

\* the instances of the program that run on the same two files
Monitors == {"A", "B"}

\* str.lower() on the roles that can be typed
Lower(text) ==
    IF text \in {"Admin", "ADMIN"} THEN "admin"
    ELSE IF text \in {"Student", "STUDENT"} THEN "student"
    ELSE text

\* instance i returns from the function it is in to the menu; the locals
\* of the function are gone
Return(i) ==
    /\ monitor_pc' = [monitor_pc EXCEPT ![i] = "menu"]
    /\ monitor_accounts' = [monitor_accounts EXCEPT ![i] = <<>>]
    /\ monitor_username' = [monitor_username EXCEPT ![i] = ""]
    /\ UNCHANGED monitor_event

\* what load_accounts() returns for an accounts.json that was opened for
\* writing and has nothing, or not all, written to it yet: lines 37-41
Truncated == <<>>

\* instance i has changed its copy, with the timestamps of the clock as it
\* is now, and calls save_accounts(copy) (lines 117, 158, 169, 173, 240);
\* the file is not opened yet. After save_accounts() comes the
\* log_login_event() call that ends the function the instance is in
Saving(i, copy, event) ==
    /\ accounts' = accounts
    /\ monitor_pc' = [monitor_pc EXCEPT ![i] = "save_accounts"]
    /\ monitor_accounts' = [monitor_accounts EXCEPT ![i] = copy]
    /\ monitor_username' = [monitor_username EXCEPT ![i] = ""]
    /\ monitor_event' = [monitor_event EXCEPT ![i] = event]

\* save_accounts() line 46: open(ACCOUNTS_FILE, "w") truncates
\* accounts.json; the instance goes on to json.dump()
open_accounts(i) ==
    /\ monitor_pc[i] = "save_accounts"
    /\ accounts' = Truncated
    /\ monitor_pc' = [monitor_pc EXCEPT ![i] = "json_dump"]
    /\ UNCHANGED <<last_event, now, advances, streak, monitor_accounts,
                   monitor_username, monitor_event, operations,
                   scheduler_state>>

\* characters json.dump() writes for None (null) and for a timestamp
\* ("YYYY-MM-DD HH:MM:SS" in quotes)
NullLength == 4
StampLength == 21
ValueLength(value) == IF value = None THEN NullLength ELSE StampLength

\* length of what json.dump(dict, f, indent=4) writes, less the parts that
\* are as long in every dictionary with the same usernames and roles (names,
\* role, hash, the one digit of failed_attempts, created_at)
RECURSIVE DumpLength(_, _)
DumpLength(dict, usernames) ==
    IF usernames = {} THEN 0
    ELSE LET u == CHOOSE name \in usernames : TRUE
         IN  ValueLength(dict[u].lockout_time) + ValueLength(dict[u].last_login)
                 + DumpLength(dict, usernames \ {u})

\* what load_accounts() returns after json.dump(copy) at line 47, by an
\* instance that opened accounts.json at line 46 when the file now holds
\* `file`. The file is empty unless another instance has written it since
\* line 46; then the copy is written over the start of that text, and where
\* that text is longer its end stays after the copy: json.load() raises
\* JSONDecodeError (extra data) and load_accounts() returns {} (lines 40-41)
json_dump(file, copy) ==
    IF DumpLength(file, DOMAIN file) > DumpLength(copy, DOMAIN copy)
    THEN Truncated
    ELSE copy

\* save_accounts() line 47: json.dump() writes the copy of instance i to
\* accounts.json
save_accounts(i) ==
    /\ monitor_pc[i] = "json_dump"
    /\ accounts' = json_dump(accounts, monitor_accounts[i])
    /\ monitor_accounts' = [monitor_accounts EXCEPT ![i] = <<>>]
    /\ monitor_pc' = [monitor_pc EXCEPT ![i] = "log_login_event"]
    /\ UNCHANGED <<last_event, now, advances, streak, monitor_username,
                   monitor_event, operations, scheduler_state>>

\* main_menu lines 288-301: option 1, 2 or 5 is chosen; accounts.json is
\* loaded and the function waits at its first prompt with the copy
main_menu(i, option) ==
    /\ monitor_pc[i] = "menu"
    /\ operations < MaxOperations
    /\ operations' = operations + 1
    /\ monitor_pc' = [monitor_pc EXCEPT ![i] = option]
    /\ monitor_accounts' = [monitor_accounts EXCEPT ![i] = accounts]
    /\ UNCHANGED <<accounts, last_event, now, advances, streak,
                   monitor_username, monitor_event, scheduler_state>>

\* main_menu lines 304-306: option 7 is chosen; the loop is left and the
\* program ends
main_menu_back(i) ==
    /\ monitor_pc[i] = "menu"
    /\ monitor_pc' = [monitor_pc EXCEPT ![i] = "exited"]
    /\ UNCHANGED <<accounts, last_event, now, advances, streak,
                   monitor_accounts, monitor_username, monitor_event,
                   operations, scheduler_state>>

\* lines 84-117: the answers to the four prompts are checked against the
\* copy that was loaded, and save_accounts() is called with the copy that
\* has the new account
create_account(i, username_typed, role_typed, password_typed, confirm_typed) ==
    LET username == Strip(username_typed)
        role == IF Lower(Strip(role_typed)) \in {"student", "admin"}
                THEN Lower(Strip(role_typed)) ELSE "student"
        password == Strip(password_typed)
        confirm == Strip(confirm_typed)
    IN  /\ monitor_pc[i] = "create_account"
        /\ IF \/ username = ""
              \/ username \in DOMAIN monitor_accounts[i]
              \/ password = ""
              \/ password # confirm
           THEN /\ Return(i)
                /\ UNCHANGED <<accounts, streak>>
           ELSE /\ Saving(i, SetAccount(monitor_accounts[i], username,
                       [role |-> role, password_hash |-> hash_password(password),
                        failed_attempts |-> 0, lockout_time |-> None,
                        created_at |-> Stamp(Strftime(now)), last_login |-> None]),
                       log_login_event(username, "ACCOUNT_CREATED"))
                /\ streak' = [streak EXCEPT ![username] = 0]
        /\ UNCHANGED <<last_event, now, advances, operations, scheduler_state>>

\* faulty variant: the counter is kept when the lockout is over
ResetExpiredNever(account) == account

\* lines 146-149: the counter of an account whose lockout is over starts
\* again
ResetExpired(account) ==
    IF account.failed_attempts >= MAX_FAILED_ATTEMPTS
    THEN [account EXCEPT !.failed_attempts = 0, !.lockout_time = None]
    ELSE account

\* lines 125-151: the username is looked up in the copy that was loaded and
\* the lockout of the account is tested; the function then waits for the
\* password
login_username(i, username_typed) ==
    LET username == Strip(username_typed) IN
    /\ monitor_pc[i] = "login"
    /\ IF username = ""
       THEN /\ Return(i)
            /\ UNCHANGED last_event
       ELSE IF username \notin DOMAIN monitor_accounts[i]
       THEN /\ last_event' = log_login_event(username, "FAILED")
            /\ Return(i)
       ELSE IF get_lockout_status(monitor_accounts[i][username], now)
       THEN /\ last_event' = log_login_event(username, "BLOCKED")
            /\ Return(i)
       ELSE /\ monitor_accounts' = [monitor_accounts EXCEPT ![i] =
                   SetAccount(@, username, ResetExpired(@[username]))]
            /\ monitor_username' = [monitor_username EXCEPT ![i] = username]
            /\ monitor_pc' = [monitor_pc EXCEPT ![i] = "password"]
            /\ UNCHANGED <<last_event, monitor_event>>
    /\ UNCHANGED <<accounts, now, advances, streak, operations, scheduler_state>>

\* lines 151-173: the password is compared, the account is updated in the
\* copy and save_accounts() is called with the whole copy
login_password(i, password_typed) ==
    LET username == monitor_username[i]
        account == monitor_accounts[i][username]
        failed == account.failed_attempts + 1
    IN  /\ monitor_pc[i] = "password"
        /\ IF hash_password(Strip(password_typed)) = account.password_hash
           THEN /\ Saving(i, SetAccount(monitor_accounts[i], username,
                       [account EXCEPT !.failed_attempts = 0,
                                       !.lockout_time = None,
                                       !.last_login = Stamp(Strftime(now))]),
                       log_login_event(username, "SUCCESS"))
                /\ streak' = [streak EXCEPT ![username] = 0]
           ELSE /\ IF failed >= MAX_FAILED_ATTEMPTS
                   THEN Saving(i, SetAccount(monitor_accounts[i], username,
                               [account EXCEPT !.failed_attempts = failed,
                                    !.lockout_time = Stamp(Strftime(now))]),
                               log_login_event(username, "LOCKED"))
                   ELSE Saving(i, SetAccount(monitor_accounts[i], username,
                               [account EXCEPT !.failed_attempts = failed]),
                               log_login_event(username, "FAILED"))
                /\ streak' = [streak EXCEPT ![username] = @ + 1]
        /\ UNCHANGED <<last_event, now, advances, operations, scheduler_state>>

\* lines 232-240: the account is unlocked in the copy that was loaded and
\* save_accounts() is called with the whole copy
unlock_account(i, username_typed) ==
    LET username == Strip(username_typed) IN
    /\ monitor_pc[i] = "unlock_account"
    /\ IF username \notin DOMAIN monitor_accounts[i]
       THEN /\ Return(i)
            /\ UNCHANGED <<accounts, streak>>
       ELSE /\ Saving(i, SetAccount(monitor_accounts[i], username,
                   [monitor_accounts[i][username] EXCEPT
                        !.failed_attempts = 0, !.lockout_time = None]),
                   log_login_event(username, "UNLOCKED"))
            /\ streak' = [streak EXCEPT ![username] = 0]
    /\ UNCHANGED <<last_event, now, advances, operations, scheduler_state>>

\* lines 119, 162, 170, 175, 242: the log_login_event() call after
\* save_accounts(); the function returns
logged(i) ==
    /\ monitor_pc[i] = "log_login_event"
    /\ last_event' = monitor_event[i]
    /\ monitor_pc' = [monitor_pc EXCEPT ![i] = "menu"]
    /\ monitor_event' = [monitor_event EXCEPT ![i] = <<>>]
    /\ UNCHANGED <<accounts, now, advances, streak, monitor_accounts,
                   monitor_username, operations, scheduler_state>>

\* time passes
advance_clock(ticks) ==
    /\ advances < MaxAdvances
    /\ now' = now + ticks
    /\ advances' = advances + 1
    /\ UNCHANGED <<accounts, last_event, streak, monitor_pc, monitor_accounts,
                   monitor_username, monitor_event, operations, scheduler_state>>

\* what is typed at the prompts of the login monitor, and how long the
\* clock moves on: a tick, and a tick less than the lockout lasts
Usernames == {"u1"}
UsernamesTyped == {"", " u1 "}
RolesTyped == {" ADMIN "}
NewPasswordsTyped == {"", " pw"}
PasswordsTyped == {" pw", "bad"}
ClockSteps == {1, LockTicks - 1}

\* the options of main_menu that work on accounts.json and write it
MonitorOptions == {"login", "create_account", "unlock_account"}

\* the steps of instance i of the login monitor
monitor(i) ==
    \/ \E option \in MonitorOptions : main_menu(i, option)
    \/ main_menu_back(i)
    \/ \E u \in UsernamesTyped, r \in RolesTyped, p \in NewPasswordsTyped,
          c \in PasswordsTyped : create_account(i, u, r, p, c)
    \/ \E u \in UsernamesTyped : login_username(i, u)
    \/ \E p \in PasswordsTyped : login_password(i, p)
    \/ \E u \in UsernamesTyped : unlock_account(i, u)
    \/ open_accounts(i)
    \/ save_accounts(i)
    \/ logged(i)

NextLogin ==
    \/ \E i \in Monitors : monitor(i)
    \/ \E d \in ClockSteps : advance_clock(d)

----------------------------------------------------------------------------
(* Inputs *)

\* answers to the prompts of submit_job
StudentInputs == {"", "S1"}
NameInputs == {"", "A"}
TimeInputs == {0, 3, 12}
PriorityInputs == {0, 3, 9, 11}

\* answers to the prompt of bye_exit
ConfirmInputs == {"Y", "yes", " n", "x"}

\* answers to the prompt of main_menu
MenuInputs == {"", "6"}

\* answers to the prompt of process_job_queue
ChoiceInputs == {"1", " 1", "2", "3", ""}

\* the queue files a behaviour of SpecRun starts from: what submissions of
\* up to MaxJobs jobs leave behind
RunPriorities == {3, 9}
RunLines ==
    {FormatLine("S1", "A", t, p) : t \in 1..MaxTime, p \in RunPriorities}
RunQueues == UNION {[1..n -> RunLines] : n \in 0..MaxJobs}

----------------------------------------------------------------------------
(* Specifications *)

InitRest ==
    /\ out = ""
    /\ pc = "menu"
    /\ jobs = <<>>
    /\ sorted_jobs = <<>>
    /\ idx = 1
    /\ cycle = 1
    /\ execution_log = <<>>
    /\ trace_slot = <<>>
    /\ pending0 = <<>>
    /\ completed0 = 0
    /\ log0 = 0
    /\ failed_writes = 0
    /\ instance_jobs = [i \in Instances |-> <<>>]
    /\ instance_idx = [i \in Instances |-> 1]
    /\ instance_event = [i \in Instances |-> <<>>]
    /\ accounts = <<>>
    /\ last_event = <<>>
    /\ now = 0
    /\ advances = 0
    /\ streak = [u \in Usernames |-> 0]
    /\ monitor_pc = [i \in Monitors |-> "menu"]
    /\ monitor_accounts = [i \in Monitors |-> <<>>]
    /\ monitor_username = [i \in Monitors |-> ""]
    /\ monitor_event = [i \in Monitors |-> <<>>]
    /\ operations = 0

\* no instance of SpecRace is started
InitLocals ==
    /\ InitRest
    /\ instance_pc = [i \in Instances |-> "off"]
    /\ log_exists = FALSE

\* the program started with no file on disk
Init ==
    /\ queue_file = <<>>
    /\ completed_file = <<>>
    /\ log_file = log_event(<<>>, InitializedEvent)
    /\ InitLocals

Schedule ==
    \/ round_robin_scheduling
    \/ rr_cycle_start
    \/ rr_visit
    \/ rr_cycle_end
    \/ rr_finish
    \/ priority_scheduling
    \/ pr_dispatch
    \/ pr_finish
    \/ process_job_queue
    \/ \E choice \in ChoiceInputs : process_job_queue_choice(choice)

\* the options of the main menu that run no job and take none
Browse ==
    \/ view_pending_jobs
    \/ view_completed_jobs
    \/ \E confirm \in ConfirmInputs : bye_exit(confirm)
    \/ \E choice \in MenuInputs : main_menu_invalid(choice)

Next ==
    \/ \E s \in StudentInputs, n \in NameInputs, t \in TimeInputs,
          p \in PriorityInputs : submit_job(s, n, t, p)
    \/ Schedule
    \/ Browse

Spec == Init /\ [][Next]_vars

\* the program started on a queue file that earlier submissions wrote
InitRun ==
    /\ queue_file \in RunQueues
    /\ completed_file = <<>>
    /\ log_file = log_event(<<>>, InitializedEvent)
                  \o [k \in 1..Len(queue_file) |->
                        SubmissionEvent(queue_file[k][1], queue_file[k][2],
                                        queue_file[k][3].value,
                                        queue_file[k][4].value)]
    /\ InitLocals

NextRun == Schedule

SpecRun == InitRun /\ [][NextRun]_vars

\* a scheduling function that was entered runs on: the code is sequential
\* and waits for nothing between entry and return
RunStep ==
    \/ rr_cycle_start
    \/ rr_visit
    \/ rr_cycle_end
    \/ rr_finish
    \/ pr_dispatch
    \/ pr_finish

SpecRunFair == SpecRun /\ WF_vars(RunStep)

\* what may be typed at the prompts of submit_job: blanks, a job name with
\* the field separator in it, texts that are no numbers, and the numbers on
\* both sides of each limit
StudentTyped == {"", " ", "S1"}
NameTyped == {"", "A", "A|X"}
TimeTyped == {NotWhole, Whole(0 - 1), Whole(0), Whole(6)}
PriorityTyped == {NotWhole, Whole(0), Whole(1), Whole(10), Whole(11)}

NextTyped ==
    \/ \E s \in StudentTyped, n \in NameTyped, t \in TimeTyped,
          p \in PriorityTyped : submit_job_typed(s, n, t, p)
    \/ Schedule
    \/ Browse

\* the menu loop with submissions as they are typed
SpecTyped == Init /\ [][NextTyped]_vars

\* queue files written by hand: int() at lines 47-48 takes any whole
\* number, so a line may carry an exec_time that submit_job refuses; a
\* line whose exec_time is no whole number is skipped
EditedTimes == {NotWhole, Whole(0 - 2), Whole(0), Whole(3), Whole(7)}
EditedLines ==
    {<<"S1", "A", t, Whole(p)>> : t \in EditedTimes, p \in RunPriorities}
EditedQueues == UNION {[1..n -> EditedLines] : n \in 0..MaxJobs}

InitEdited ==
    /\ queue_file \in EditedQueues
    /\ completed_file = <<>>
    /\ log_file = log_event(<<>>, InitializedEvent)
    /\ InitLocals

\* runs on queue files written by hand
SpecEdited == InitEdited /\ [][NextRun]_vars

\* two instances of the login monitor, from no accounts
SpecLogin == Init /\ [][NextLogin]_vars

\* one instance of the login monitor, from no accounts
NextLoginAlone ==
    \/ monitor("A")
    \/ \E d \in ClockSteps : advance_clock(d)

SpecLoginAlone == Init /\ [][NextLoginAlone]_vars

\* what is typed at the prompts of submit_job in a behaviour of SpecRace
RaceTimes == {0, 7}
RacePriorities == {3, 9}

\* the steps of instance i of the program
instance(i) ==
    \/ start_step(i)
    \/ start_open_step(i)
    \/ start_log_step(i)
    \/ \E s \in StudentInputs, t \in RaceTimes, p \in RacePriorities :
          submit_job_step(i, s, "A", t, p)
    \/ view_pending_jobs_step(i)
    \/ view_completed_jobs_step(i)
    \/ log_event_step(i)
    \/ bye_exit_step(i)
    \/ process_job_queue_step(i)
    \/ \E choice \in ChoiceInputs : process_job_queue_choice_step(i, choice)
    \/ rr_visit_step(i)
    \/ rr_append_step(i)
    \/ rr_save_step(i)
    \/ rr_finish_step(i)
    \/ pr_dispatch_step(i)
    \/ pr_append_step(i)
    \/ pr_save_step(i)
    \/ pr_finish_step(i)

\* the instances are about to start; there is no queue file and no
\* ledger, and the log file is missing or is there with no line in it
InitRace ==
    /\ queue_file = <<>>
    /\ completed_file = <<>>
    /\ log_file = <<>>
    /\ InitRest
    /\ instance_pc = [i \in Instances |-> "start"]
    /\ log_exists \in BOOLEAN

NextRace == \E i \in Instances : instance(i)

\* the program started twice on the same files, while the log file has
\* room
SpecRace == InitRace /\ [][NextRace]_vars

\* the runs of SpecRun, with writes that may fail
WriteFails ==
    \/ rr_visit_log_fails
    \/ rr_visit_ledger_fails
    \/ pr_dispatch_log_fails
    \/ pr_dispatch_ledger_fails
    \/ rr_finish_save_fails
    \/ rr_finish_log_fails
    \/ pr_finish_save_fails
    \/ pr_finish_log_fails
    \/ \E s \in StudentInputs, n \in NameInputs, t \in TimeInputs,
          p \in PriorityInputs : submit_job_queue_fails(s, n, t, p)
    \/ \E s \in StudentInputs, n \in NameInputs, t \in TimeInputs,
          p \in PriorityInputs : submit_job_log_fails(s, n, t, p)

NextFail == Schedule \/ WriteFails

SpecFail == InitRun /\ [][NextFail]_vars

----------------------------------------------------------------------------
(* What a run was given and what it wrote *)

\* the pending set the last run loaded
InputJobs == load_jobs(pending0)

\* the ledger records the last run wrote
RunCompleted == Suffix(completed_file, completed0)

\* the job of a ledger record
JobOf(rec) ==
    [student_id |-> rec.student_id, job_name |-> rec.job_name,
     exec_time |-> rec.exec_time, priority |-> rec.priority]

RunCompletedJobs == [k \in 1..Len(RunCompleted) |-> JobOf(RunCompleted[k])]

\* the trace of the last run: the execution events it logged
IsExecution(e) == e.event \in {"RR_EXECUTION", "PRIORITY_EXECUTION"}
TraceEntries == SelectSeq(Suffix(log_file, log0), IsExecution)

\* the time a trace entry grants
TimeGranted(e) == IF e.event = "RR_EXECUTION" THEN e.run_time ELSE e.exec_time

\* the times granted to the job at position i of the pending set, in order
GrantsOf(i) ==
    LET at == SelectSeq([k \in 1..Len(TraceEntries) |-> k],
                        LAMBDA k : trace_slot[k] = i)
    IN  [n \in 1..Len(at) |-> TimeGranted(TraceEntries[at[n]])]

\* the same, read from the execution_log of round_robin_scheduling
LoggedGrantsOf(i) ==
    LET at == SelectSeq([k \in 1..Len(execution_log) |-> k],
                        LAMBDA k : trace_slot[k] = i)
    IN  [n \in 1..Len(at) |-> execution_log[at[n]].run_time]

\* a run has just returned after scheduling
\* inside a scheduling function
Running == pc \in {"rr_while", "rr_for", "pr_for"}

RRFinished == pc = "menu" /\ out = MsgRRDone
PRFinished == pc = "menu" /\ out = MsgPRDone
RunFinished == RRFinished \/ PRFinished

AllPositive(js) == \A k \in 1..Len(js) : js[k].exec_time > 0

----------------------------------------------------------------------------
(* Claims *)

\* C1: when a run of either algorithm on a non-empty pending set of jobs
\* with exec_time > 0 has finished, the ledger records it wrote are the
\* input jobs, each exactly once (as multisets: equal jobs count separately),
\* each under the algorithm that ran.
C1_EveryJobCompletedOnce ==
    (RunFinished /\ InputJobs # <<>> /\ AllPositive(InputJobs)) =>
        /\ BagOfSeq(RunCompletedJobs) = BagOfSeq(InputJobs)
        /\ Len(RunCompleted) = Len(InputJobs)
        /\ \A k \in 1..Len(RunCompleted) :
              RunCompleted[k].algorithm =
                  IF RRFinished THEN "RoundRobin" ELSE "Priority"

\* a Round Robin run has finished on two equal jobs that end in different
\* slices of the same cycle
C1_Witness ==
    /\ RRFinished
    /\ Len(InputJobs) = 2
    /\ InputJobs[1] = InputJobs[2]
    /\ InputJobs[1].exec_time > TIME_QUANTUM
    /\ Len(RunCompleted) = 2

\* C2: after a run of either algorithm, the times granted by the trace
\* entries of each input job add up to the job's exec_time.
C2_GrantsSumToTotal ==
    RunFinished =>
        \A i \in 1..Len(InputJobs) :
            /\ SumSeq(GrantsOf(i)) = InputJobs[i].exec_time
            /\ RRFinished => SumSeq(LoggedGrantsOf(i)) = InputJobs[i].exec_time

\* a Round Robin run has finished in which a job got three slices
C2_Witness ==
    /\ RRFinished
    /\ \E i \in 1..Len(InputJobs) :
          /\ Len(GrantsOf(i)) = 3
          /\ InputJobs[i].exec_time % TIME_QUANTUM # 0

\* C3: Round Robin gives a job of exec_time T > 0 exactly ceil(T / 5) trace
\* entries; each but the last grants 5 and the last grants what is left,
\* T - 5 * (ceil(T / 5) - 1).
C3_SliceCountAndSizes ==
    RRFinished =>
        \A i \in 1..Len(InputJobs) :
            LET T == InputJobs[i].exec_time
                g == GrantsOf(i)
            IN  T > 0 =>
                    /\ Len(g) = CeilDiv(T, 5)
                    /\ \A n \in 1..(Len(g) - 1) : g[n] = 5
                    /\ g[Len(g)] = T - 5 * (CeilDiv(T, 5) - 1)

\* a Round Robin run has finished on a job of 11 seconds: slices 5, 5, 1
C3_Witness ==
    /\ RRFinished
    /\ \E i \in 1..Len(InputJobs) :
          /\ InputJobs[i].exec_time = 11
          /\ GrantsOf(i) = <<5, 5, 1>>

\* C4: Priority scheduling appends the jobs to the ledger in non-increasing
\* order of priority, and jobs of one priority in the order they have in
\* the pending set.
C4_PriorityOrderStable ==
    PRFinished =>
        /\ \A k \in 1..(Len(RunCompleted) - 1) :
              RunCompleted[k].priority >= RunCompleted[k + 1].priority
        /\ \A p \in {InputJobs[k].priority : k \in 1..Len(InputJobs)} :
              SelectSeq(RunCompletedJobs, LAMBDA j : j.priority = p)
                  = SelectSeq(InputJobs, LAMBDA j : j.priority = p)

\* a Priority run has finished on three jobs, a low one ahead of two
\* different jobs of one higher priority
C4_Witness ==
    /\ PRFinished
    /\ Len(InputJobs) = 3
    /\ InputJobs[1].priority < InputJobs[2].priority
    /\ InputJobs[2].priority = InputJobs[3].priority
    /\ InputJobs[2].exec_time # InputJobs[3].exec_time
    /\ RunCompletedJobs = <<InputJobs[2], InputJobs[3], InputJobs[1]>>

\* the cycle in which Round Robin ends a job of exec_time T
FinishCycle(T) == CeilDiv(T, 5)

\* the place in the ledger C5 gives the job at position i of the pending
\* set: behind the jobs that end in an earlier cycle and the jobs ahead of
\* it in the pending set that end in the same cycle
FinishRank(i) ==
    1 + Cardinality({j \in 1..Len(InputJobs) :
            \/ FinishCycle(InputJobs[j].exec_time) < FinishCycle(InputJobs[i].exec_time)
            \/ /\ FinishCycle(InputJobs[j].exec_time) = FinishCycle(InputJobs[i].exec_time)
               /\ j < i})

\* C5: Round Robin appends the jobs to the ledger in the order they end:
\* job i ahead of job j iff ceil(Ti / 5) < ceil(Tj / 5), or the two are
\* equal and i is ahead of j in the pending set.
C5_FinishOrder ==
    (RRFinished /\ AllPositive(InputJobs)) =>
        /\ Len(RunCompleted) = Len(InputJobs)
        /\ \A i \in 1..Len(InputJobs) :
              RunCompletedJobs[FinishRank(i)] = InputJobs[i]

\* a Round Robin run has finished on a long job followed by a short one:
\* the short one is first in the ledger
C5_Witness ==
    /\ RRFinished
    /\ Len(InputJobs) = 2
    /\ InputJobs[1].exec_time > 2 * TIME_QUANTUM
    /\ InputJobs[2].exec_time = 3
    /\ RunCompletedJobs = <<InputJobs[2], InputJobs[1]>>

\* C6: when a run of either algorithm on a non-empty pending set has
\* finished, the pending store is empty.
C6_FullDrain ==
    (RunFinished /\ InputJobs # <<>>) =>
        /\ queue_file = <<>>
        /\ load_jobs(queue_file) = <<>>

\* a run has finished on three pending jobs
C6_Witness ==
    /\ RunFinished
    /\ Len(InputJobs) = 3
    /\ Len(RunCompleted) = 3

\* a step that enters a scheduling function or process_job_queue
EntryStep ==
    \/ round_robin_scheduling
    \/ priority_scheduling
    \/ process_job_queue
    \/ \E choice \in ChoiceInputs :
          /\ Dispatch(Strip(choice)) # "None"
          /\ process_job_queue_choice(choice)

\* C7: running either algorithm on an empty pending set does nothing: no
\* trace entry, no ledger record, the three files as they were, and the
\* function has returned.
C7_EmptyRunIsNoOp ==
    [][(load_jobs(queue_file) = <<>> /\ EntryStep) =>
          /\ queue_file' = queue_file
          /\ completed_file' = completed_file
          /\ log_file' = log_file
          /\ pc' = "menu"
          /\ out' \in {MsgNoJobsToSchedule, MsgNoJobsToProcess}
          /\ UNCHANGED <<locals, marks>>]_vars

\* a scheduling function has returned from an empty pending set, with
\* records of an earlier run in the ledger
C7_Witness ==
    /\ pc = "menu"
    /\ out = MsgNoJobsToSchedule
    /\ load_jobs(queue_file) = <<>>
    /\ completed_file # <<>>

\* the largest exec_time among the jobs js
MaxExecTime(js) ==
    CHOOSE t \in {js[k].exec_time : k \in 1..Len(js)} :
        \A k \in 1..Len(js) : js[k].exec_time <= t

\* what is left of a job of exec_time T after n visits
LeftAfter(T, n) == IF T - 5 * n > 0 THEN T - 5 * n ELSE 0

\* in a Round Robin run every job has been visited once in every cycle
\* that is over, and the jobs behind the loop position once more
VisitedEveryCycle ==
    pc \in {"rr_while", "rr_for"} =>
        \A i \in 1..Len(jobs) :
            jobs[i].remaining =
                LeftAfter(jobs[i].exec_time,
                          IF pc = "rr_for" /\ i < idx THEN cycle ELSE cycle - 1)

\* a visit of a job with time left takes time off it
VisitDecreases ==
    (pc = "rr_for" /\ idx <= Len(jobs) /\ jobs[idx].remaining > 0) =>
        /\ jobs'[idx].remaining < jobs[idx].remaining
        /\ jobs'[idx].remaining >= 0

\* C8: Round Robin ends on every pending set of jobs with exec_time > 0:
\* a visit of a job with time left strictly lowers its remaining time,
\* every job is visited in every cycle, and the run gets to where no job
\* has time left, after exactly ceil(max T / 5) cycles.
C8_RoundRobinTerminates ==
    /\ [][VisitDecreases]_vars
    /\ []VisitedEveryCycle
    /\ [](RRFinished =>
            /\ \A i \in 1..Len(jobs) : jobs[i].remaining = 0
            /\ cycle - 1 = CeilDiv(MaxExecTime(jobs), 5))
    /\ (pc \in {"rr_while", "rr_for"}) ~> RRFinished

\* a Round Robin run has finished after three cycles, one job having ended
\* in the first
C8_Witness ==
    /\ RRFinished
    /\ cycle = 4
    /\ Len(jobs) = 2
    /\ \E i \in 1..Len(jobs) : jobs[i].exec_time <= TIME_QUANTUM

\* the place Priority scheduling gives the job at position i of the
\* pending set: behind the jobs of higher priority and the jobs of the same
\* priority ahead of it
PriorityRank(i) ==
    1 + Cardinality({j \in 1..Len(InputJobs) :
            \/ InputJobs[j].priority > InputJobs[i].priority
            \/ /\ InputJobs[j].priority = InputJobs[i].priority
               /\ j < i})

\* C9: Priority scheduling runs each job to its end in one step: one trace
\* entry per job, granting the job's exec_time, the entries in sorted order
\* and the ledger records in the same order, each record written with its
\* trace entry.
C9_PriorityRunToCompletion ==
    /\ pc = "pr_for" =>
          /\ Len(TraceEntries) = idx - 1
          /\ Len(RunCompleted) = idx - 1
    /\ (pc = "pr_for" \/ PRFinished) =>
          \A k \in 1..Len(TraceEntries) :
              /\ TraceEntries[k].event = "PRIORITY_EXECUTION"
              /\ TraceEntries[k].student_id = RunCompleted[k].student_id
              /\ TraceEntries[k].job_name = RunCompleted[k].job_name
              /\ TraceEntries[k].priority = RunCompleted[k].priority
              /\ TimeGranted(TraceEntries[k]) = RunCompleted[k].exec_time
    /\ PRFinished =>
          /\ Len(TraceEntries) = Len(InputJobs)
          /\ \A i \in 1..Len(InputJobs) :
                /\ RunCompletedJobs[PriorityRank(i)] = InputJobs[i]
                /\ TimeGranted(TraceEntries[PriorityRank(i)]) = InputJobs[i].exec_time
                /\ Len(GrantsOf(i)) = 1

\* a Priority run has finished on three jobs that it had to reorder
C9_Witness ==
    /\ PRFinished
    /\ Len(InputJobs) = 3
    /\ InputJobs[1].priority < InputJobs[3].priority
    /\ InputJobs[1].exec_time # InputJobs[3].exec_time
    /\ PriorityRank(1) = 3
    /\ Len(TraceEntries) = 3
    /\ TimeGranted(TraceEntries[3]) = InputJobs[1].exec_time

\* C10: an answer to the algorithm prompt other than "1" and "2" runs no
\* strategy: the invalid choice is reported and the pending store, the
\* trace (the log) and the ledger are as they were.
C10_UnknownAlgorithmRefused ==
    [][(\E choice \in ChoiceInputs :
            /\ Strip(choice) \notin {"1", "2"}
            /\ process_job_queue_choice(choice)) =>
          /\ out' = MsgInvalidChoice
          /\ pc' = "menu"
          /\ queue_file' = queue_file
          /\ completed_file' = completed_file
          /\ log_file' = log_file
          /\ UNCHANGED <<locals, marks>>]_vars

\* an invalid choice has been reported with jobs pending
C10_Witness ==
    /\ pc = "menu"
    /\ out = MsgInvalidChoice
    /\ Len(load_jobs(queue_file)) = 2

\* C11: a failed write of a trace entry or of a completed record does not
\* end the run: the run is not aborted, the jobs behind the failure are
\* still scheduled, and a run that has returned has taken every job it was
\* given to its end.
C11_WriteFailureNonFatal ==
    /\ pc # "aborted"
    /\ RunFinished => Len(TraceEntries) >= Len(InputJobs)
    /\ RRFinished => \A i \in 1..Len(jobs) : jobs[i].remaining = 0

\* the messages of a submission that was refused
SubmitRefusals ==
    {MsgEmptyStudent, MsgEmptyName, MsgInvalidTime, MsgBadTime,
     MsgInvalidPriority, MsgBadPriority}

\* a record submit_job may admit
Admissible(job) ==
    /\ job.student_id # ""
    /\ job.job_name # ""
    /\ job.exec_time > 0
    /\ job.priority >= 1
    /\ job.priority <= 10

\* a step that adds a line to the pending file adds an admissible line, and
\* a refused submission leaves the file as it was
AdmitStep ==
    /\ Len(queue_file') > Len(queue_file) =>
          /\ out' = MsgSubmitted
          /\ queue_file' = Append(queue_file, queue_file'[Len(queue_file')])
          /\ LET parts == queue_file'[Len(queue_file')]
                 n == Len(parts)
             IN  /\ n >= 4
                 /\ parts[1] # ""
                 /\ parts[2] # ""
                 /\ parts[n - 1].whole
                 /\ parts[n - 1].value > 0
                 /\ parts[n].whole
                 /\ parts[n].value >= 1
                 /\ parts[n].value <= 10
    /\ out' \in SubmitRefusals => queue_file' = queue_file

\* C12: a submission is admitted only with a non-empty student id and job
\* name, exec_time > 0 and 1 <= priority <= 10, a refused submission leaves
\* the pending file unchanged, and so, from an empty file, every pending
\* job has exec_time > 0 and 1 <= priority <= 10 whatever was submitted and
\* run.
C12_OnlyValidJobsAdmitted ==
    /\ [](\A k \in 1..Len(load_jobs(queue_file)) :
             Admissible(load_jobs(queue_file)[k]))
    /\ [][AdmitStep]_vars

\* both limits of the priority were admitted, and then a submission with a
\* priority that is no number was refused
C12_Witness ==
    /\ out = MsgInvalidPriority
    /\ \E k \in 1..Len(load_jobs(queue_file)) :
          load_jobs(queue_file)[k].priority = MIN_PRIORITY
    /\ \E k \in 1..Len(load_jobs(queue_file)) :
          load_jobs(queue_file)[k].priority = MAX_PRIORITY

\* the Round Robin entries of the trace, by their position in it
RREntries == {k \in 1..Len(TraceEntries) : TraceEntries[k].event = "RR_EXECUTION"}

\* C13: every Round Robin trace entry grants between 1 and 5 seconds and
\* leaves a remaining time >= 0; once an entry of a job leaves 0 the job has
\* no later entry; a job of exec_time 10 gets two entries of 5 and no third.
C13_NoZeroSizeEntry ==
    /\ \A k \in RREntries :
          /\ TraceEntries[k].run_time >= 1
          /\ TraceEntries[k].run_time <= 5
          /\ TraceEntries[k].remaining >= 0
    /\ \A k \in 1..Len(execution_log) :
          /\ execution_log[k].run_time >= 1
          /\ execution_log[k].run_time <= 5
          /\ execution_log[k].remaining >= 0
    /\ \A k \in RREntries : \A m \in RREntries :
          (k < m /\ trace_slot[k] = trace_slot[m]) => TraceEntries[k].remaining # 0
    /\ RRFinished =>
          \A i \in 1..Len(InputJobs) :
              InputJobs[i].exec_time = 10 => GrantsOf(i) = <<5, 5>>

\* a Round Robin run has finished in which a job of exec_time 10 got its two
\* slices and was passed over in the third cycle, which another job needed
C13_Witness ==
    /\ RRFinished
    /\ Len(InputJobs) = 2
    /\ InputJobs[1].exec_time = 10
    /\ InputJobs[2].exec_time = 11
    /\ GrantsOf(1) = <<5, 5>>
    /\ Len(GrantsOf(2)) = 3
    /\ cycle = 4

\* the trace entries with which a job ends: every entry of a Priority run,
\* and the entries of a Round Robin run that leave nothing
Completes(e) == IF e.event = "RR_EXECUTION" THEN e.remaining = 0 ELSE TRUE
CompletingEntries ==
    SelectSeq([k \in 1..Len(TraceEntries) |-> k],
              LAMBDA k : Completes(TraceEntries[k]))

\* C14: a run leaves the persisted fields of its jobs alone: while it runs
\* the pending file is as it was loaded and every job in memory keeps its
\* student_id, job_name, exec_time and priority; each ledger record carries
\* these four fields of the pending job it is for; a line of the pending
\* file never carries a remaining time.
C14_RunKeepsPersistedFields ==
    /\ Running =>
          /\ queue_file = pending0
          /\ Len(jobs) = Len(InputJobs)
          /\ \A i \in 1..Len(jobs) : JobOf(jobs[i]) = InputJobs[i]
    /\ \A k \in 1..Len(RunCompleted) :
          /\ k <= Len(CompletingEntries)
          /\ RunCompletedJobs[k] = InputJobs[trace_slot[CompletingEntries[k]]]
    /\ \A k \in 1..Len(queue_file) : Len(queue_file[k]) = 4

\* a Round Robin run is under way in which a job of exec_time 11 has 1 left
\* in memory, and another job has been recorded with its exec_time of 7
C14_Witness ==
    /\ pc = "rr_for"
    /\ Len(jobs) = 2
    /\ jobs[1].exec_time = 11
    /\ jobs[1].remaining = 1
    /\ Len(RunCompleted) = 1
    /\ RunCompleted[1].exec_time = 7
    /\ queue_file = pending0

\* the jobs that get an entry in cycle c of a Round Robin run, in pending
\* order: those with more than 5 * (c - 1) seconds to run
CycleSlots(c) ==
    SelectSeq([i \in 1..Len(InputJobs) |-> i],
              LAMBDA i : InputJobs[i].exec_time > 5 * (c - 1))

\* a cycle-major trace: the entries of cycle c, then those of the cycles
\* after it, up to the last cycle
RECURSIVE CycleMajor(_, _)
CycleMajor(c, last) ==
    IF c > last THEN <<>>
    ELSE [k \in 1..Len(CycleSlots(c)) |->
             LET T == InputJobs[CycleSlots(c)[k]].exec_time
             IN  [slot |-> CycleSlots(c)[k], cycle |-> c,
                  grant |-> Min(5, T - 5 * (c - 1))]]
         \o CycleMajor(c + 1, last)

\* the cycle in which the longest job ends
LastCycle ==
    IF InputJobs = <<>> THEN 0 ELSE CeilDiv(MaxExecTime(InputJobs), 5)

ExpectedTrace == CycleMajor(1, LastCycle)

InRoundRobin == pc \in {"rr_while", "rr_for"} \/ RRFinished

\* C15: the Round Robin trace is cycle-major: the entries of a cycle are one
\* for each job that has time left at its turn, in pending order, all
\* entries of a cycle come before those of the next, and each entry is
\* written during the cycle it belongs to.
C15_TraceIsCycleMajor ==
    /\ [](InRoundRobin =>
            /\ Len(TraceEntries) <= Len(ExpectedTrace)
            /\ Len(trace_slot) = Len(TraceEntries)
            /\ \A k \in 1..Len(TraceEntries) :
                  /\ trace_slot[k] = ExpectedTrace[k].slot
                  /\ TimeGranted(TraceEntries[k]) = ExpectedTrace[k].grant
            /\ RRFinished => Len(TraceEntries) = Len(ExpectedTrace))
    /\ [][(pc = "rr_for" /\ Len(trace_slot') > Len(trace_slot)) =>
             /\ Len(trace_slot') = Len(trace_slot) + 1
             /\ ExpectedTrace[Len(trace_slot')].cycle = cycle]_vars

\* Round Robin on a job of 11 seconds followed by one of 3 seconds has
\* finished with the trace 5, 3, 5, 1 for the jobs 1, 2, 1, 1
C15_Witness ==
    /\ RRFinished
    /\ Len(InputJobs) = 2
    /\ InputJobs[1].exec_time = 11
    /\ InputJobs[2].exec_time = 3
    /\ trace_slot = <<1, 2, 1, 1>>
    /\ [k \in 1..Len(TraceEntries) |-> TimeGranted(TraceEntries[k])] = <<5, 3, 5, 1>>

\* the jobs of the run that have nothing left, and the jobs the ledger
\* records of the run are for, by their position in the pending set
DoneSlots == {i \in 1..Len(jobs) : jobs[i].remaining = 0}
RecordedSlots ==
    {trace_slot[CompletingEntries[k]] : k \in 1..Len(RunCompleted)}

\* the step writes a ledger record: it is the step that writes the last
\* trace entry of the job the record is for
RecordStep ==
    (InRoundRobin /\ completed_file' # completed_file) =>
        /\ pc = "rr_for"
        /\ jobs'[idx].remaining = 0
        /\ jobs[idx].remaining > 0
        /\ log_file' = Append(log_file, RRExecutionEvent(jobs'[idx],
                                            jobs[idx].remaining))
        /\ completed_file' =
              Append(completed_file, CompletedRecord(jobs[idx], "RoundRobin"))

\* C16: between the slices of a Round Robin run the jobs recorded in the
\* ledger are the jobs with nothing left, each once, so no recorded job has
\* time left; a job is recorded in the step of its last trace entry, before
\* any other trace entry.
C16_CompletedWhenNothingLeft ==
    /\ [](InRoundRobin =>
            /\ Len(RunCompleted) = Len(CompletingEntries)
            /\ Len(RunCompleted) = Cardinality(DoneSlots)
            /\ RecordedSlots = DoneSlots)
    /\ [][RecordStep]_vars

\* between two slices of a Round Robin run the second job is recorded and
\* the first, which came before it in the cycle, still has time left
C16_Witness ==
    /\ pc = "rr_for"
    /\ Len(jobs) = 2
    /\ jobs[1].remaining > 0
    /\ jobs[2].remaining = 0
    /\ Len(RunCompleted) = 1
    /\ RunCompletedJobs[1] = InputJobs[2]
    /\ Len(TraceEntries) = 2

\* the jobs whose submission was reported and logged
IsSubmission(e) == e.event = "JOB_SUBMISSION"
SubmittedJobs ==
    LET subs == SelectSeq(log_file, IsSubmission)
    IN  [k \in 1..Len(subs) |-> JobOf(subs[k])]

\* the jobs of all ledger records
CompletedJobs == [k \in 1..Len(completed_file) |-> JobOf(completed_file[k])]

\* C17: a submission by another instance between a run's load_jobs and its
\* save_jobs loses no job: when the run has returned and the instances are
\* at their menus, every job that was submitted is pending or in the ledger.
C17_NoJobLostToRace ==
    (\A i \in Instances : instance_pc[i] = "menu") =>
        \A k \in 1..Len(SubmittedJobs) :
            \/ \E m \in 1..Len(load_jobs(queue_file)) :
                  load_jobs(queue_file)[m] = SubmittedJobs[k]
            \/ \E m \in 1..Len(CompletedJobs) :
                  CompletedJobs[m] = SubmittedJobs[k]

\* the queue-file line of a job
LineOf(job) ==
    FormatLine(job.student_id, job.job_name, job.exec_time, job.priority)

LinesOf(js) == [k \in 1..Len(js) |-> LineOf(js[k])]

\* the ledger is only added to
LedgerGrows ==
    /\ Len(completed_file') >= Len(completed_file)
    /\ SubSeq(completed_file', 1, Len(completed_file)) = completed_file

\* C18: from empty files, whenever the program is back at its menu after
\* submissions and finished runs (no write fails), the jobs submitted so far
\* are, as a multiset, the jobs in the pending file together with the jobs
\* in the ledger; and each step leaves the ledger it found as a prefix of
\* the ledger it leaves.
C18_JobConservation ==
    /\ [](pc = "menu" =>
            BagOfSeq(LinesOf(SubmittedJobs))
                = BagOfSeq(queue_file) (+) BagOfSeq(LinesOf(CompletedJobs)))
    /\ [][LedgerGrows]_vars

\* the lines of the loaded queue file that have four parts with whole
\* numbers for exec_time and priority
WholeNumberLines ==
    {i \in 1..Len(pending0) :
        Len(pending0[i]) = 4 /\ pending0[i][3].whole /\ pending0[i][4].whole}

\* the loaded jobs with an exec_time of 0 or less
Unrunnable == {i \in 1..Len(InputJobs) : InputJobs[i].exec_time <= 0}

\* C19: load_jobs checks no value, so a queue line with exec_time <= 0 is
\* loaded (as is every line of four parts whose numbers are whole numbers)
\* and scheduled like any other; Round Robin gives it no trace entry
\* and no ledger record and still clears it from the queue file, and
\* Priority scheduling gives it a trace entry and records it as completed.
C19_UnrunnableJobReachesEngine ==
    /\ Running => Len(jobs) = Cardinality(WholeNumberLines)
    /\ InRoundRobin =>
          \A i \in Unrunnable :
              /\ GrantsOf(i) = <<>>
              /\ LoggedGrantsOf(i) = <<>>
              /\ i \notin RecordedSlots
    /\ RRFinished => queue_file = <<>>
    /\ PRFinished =>
          /\ queue_file = <<>>
          /\ \A i \in Unrunnable :
                /\ Len(GrantsOf(i)) = 1
                /\ \E k \in 1..Len(RunCompleted) :
                      /\ trace_slot[CompletingEntries[k]] = i
                      /\ RunCompletedJobs[k] = InputJobs[i]
                      /\ RunCompleted[k].algorithm = "Priority"

\* a Round Robin run has finished on a job of exec_time -2 and a job of
\* exec_time 3: the second is in the ledger, the first is in no file
C19_Witness ==
    /\ RRFinished
    /\ Len(pending0) = 2
    /\ pending0[1][3] = Whole(0 - 2)
    /\ pending0[2][3] = Whole(3)
    /\ Len(TraceEntries) = 1
    /\ Len(completed_file) = 1
    /\ queue_file = <<>>

\* less than 30 minutes have passed since the lockout_time stored for u
InLockout(u) ==
    /\ u \in DOMAIN accounts
    /\ accounts[u].lockout_time # None
    /\ now - accounts[u].lockout_time[1] < 30 * 60 * TicksPerSecond

\* the step is the save_accounts() call of instance i, with a copy that
\* has the account u
Saves(i, u) ==
    /\ monitor_pc[i] # "save_accounts"
    /\ monitor_pc'[i] = "save_accounts"
    /\ u \in DOMAIN monitor_accounts'[i]

\* the step is a save_accounts() call of instance i that is followed by
\* the log_login_event() call that adds the line `event` to
\* login_attempts.txt
Logs(i, event) ==
    /\ monitor_pc[i] # "save_accounts"
    /\ monitor_pc'[i] = "save_accounts"
    /\ monitor_event'[i] = event

\* the step is the third wrong-password login to u since u was created,
\* logged in to or unlocked: it locks the account
ThirdWrongPassword(u) ==
    (streak[u] = 2 /\ streak'[u] = 3) =>
        \E i \in Monitors :
            /\ Saves(i, u)
            /\ monitor_accounts'[i][u].failed_attempts = 3
            /\ monitor_accounts'[i][u].lockout_time = Stamp(Strftime(now))
            /\ now' - monitor_accounts'[i][u].lockout_time[1]
                   < 30 * 60 * TicksPerSecond
            /\ Logs(i, log_login_event(u, "LOCKED"))

\* a step of login() of instance i for the account u: the username u is
\* typed, or the password is typed after it
LoginStep(i, u) ==
    \/ \E typed \in UsernamesTyped : Strip(typed) = u /\ login_username(i, typed)
    \/ /\ monitor_username[i] = u
       /\ \E typed \in PasswordsTyped : login_password(i, typed)

\* a login to u during the lockout of u is turned away and changes nothing
\* of the account
LoginInLockout(u) ==
    \A i \in Monitors :
        (LoginStep(i, u) /\ InLockout(u)) =>
            /\ monitor_pc'[i] = "menu"
            /\ last_event' = log_login_event(u, "BLOCKED")
            /\ accounts' = accounts

\* C20: the third wrong-password login to an account, counted from its
\* creation, its last successful login or its last unlock, locks it; every
\* login to it less than 30 minutes after its lockout_time is refused
\* before the password is asked for, whatever the password would be, and
\* leaves failed_attempts, lockout_time and last_login as they were.
C20_LoginLockout ==
    [][\A u \in Usernames :
          /\ ThirdWrongPassword(u)
          /\ LoginInLockout(u)]_vars

\* C21: whatever accounts were created, logged in to and unlocked, every
\* account in accounts.json has 0 <= failed_attempts <= 3, and its
\* lockout_time is set exactly when its failed_attempts is 3.
C21_AccountStateInvariant ==
    \A u \in DOMAIN accounts :
        /\ accounts[u].failed_attempts >= 0
        /\ accounts[u].failed_attempts <= 3
        /\ (accounts[u].lockout_time # None) <=> (accounts[u].failed_attempts = 3)

\* the account was locked by three wrong passwords, the lockout ended, and
\* a fourth wrong password was counted as the first of a new series
C21_Witness ==
    /\ "u1" \in DOMAIN accounts
    /\ streak["u1"] = 4
    /\ last_event = log_login_event("u1", "FAILED")
    /\ accounts["u1"].failed_attempts = 1
    /\ accounts["u1"].lockout_time = None

\* 30 minutes or more have passed since the lockout_time stored for u
LockoutExpired(u) ==
    /\ u \in DOMAIN accounts
    /\ accounts[u].lockout_time # None
    /\ now - accounts[u].lockout_time[1] >= 30 * 60 * TicksPerSecond

\* a login to u that succeeds, and an unlock of u, leave the counter at 0
\* and no lockout_time
CounterCleared(u) ==
    \A i \in Monitors :
        /\ (LoginStep(i, u) /\ Logs(i, log_login_event(u, "SUCCESS"))) =>
              /\ Saves(i, u)
              /\ monitor_accounts'[i][u].failed_attempts = 0
              /\ monitor_accounts'[i][u].lockout_time = None
        /\ (/\ u \in DOMAIN monitor_accounts[i]
            /\ \E typed \in UsernamesTyped :
                  Strip(typed) = u /\ unlock_account(i, typed)) =>
              /\ Saves(i, u)
              /\ monitor_accounts'[i][u].failed_attempts = 0
              /\ monitor_accounts'[i][u].lockout_time = None

\* a wrong password for u typed once the lockout has expired is counted as
\* the first of a new series and does not lock the account
WrongAfterExpiry(u) ==
    \A i \in Monitors : \A typed \in PasswordsTyped :
        (/\ monitor_username[i] = u
         /\ login_password(i, typed)
         /\ LockoutExpired(u)
         /\ hash_password(Strip(typed)) # accounts[u].password_hash) =>
            /\ Saves(i, u)
            /\ monitor_accounts'[i][u].failed_attempts = 1
            /\ monitor_accounts'[i][u].lockout_time = None
            /\ Logs(i, log_login_event(u, "FAILED"))

\* C22: a successful login and an unlock both set failed_attempts to 0 and
\* lockout_time to None; 30 minutes or more after lockout_time the counter
\* starts again, so the first wrong password then leaves failed_attempts = 1
\* and the account not locked.
C22_CounterReset ==
    [][\A u \in Usernames :
          /\ CounterCleared(u)
          /\ WrongAfterExpiry(u)]_vars

====
